---- MODULE Spec2Model ----
(***************************************************************************)
(* Model of the editor-to-final conversion of the scoring engine editor    *)
(* (src/src/config.rs).  An editor document is converted by                *)
(* convert_editor_to_final, which validates it stage by stage and either   *)
(* returns the final document together with a clone of the editor          *)
(* document, or the first ConversionError met.                             *)
(*                                                                         *)
(* Representation.  Names, user names and passwords are TLA+ strings.      *)
(* IP templates and hosts are sequences of one-character strings, so that  *)
(* the placeholder test and str::replace work on characters.  Option<T>    *)
(* is a sequence of length at most one: <<>> is None, <<v>> is Some(v).    *)
(* HashMap iteration order is unspecified: where the code returns from     *)
(* inside a loop over a HashMap, the model returns the set of all errors   *)
(* some iteration order produces.  u8 arithmetic panics in a build with    *)
(* overflow checks and wraps without them; overflow_checks is the build.   *)
(***************************************************************************)
EXTENDS Integers, Sequences, FiniteSets, TLC

VARIABLES
    doc,              \* the caller's editor document (ConfigurationEditor)
    overflow_checks,  \* TRUE: the build panics on u8 overflow; FALSE: it wraps
    result,           \* outcome of the latest call of convert_editor_to_final
    prev,             \* outcome of the call before the latest one
    ips,              \* the ConversionState handed to convert_id_to_ip
    call,             \* the latest call of convert_id_to_ip: arguments and outcome
    editor,           \* the EditorState held by the reducer
    storage           \* the configurations in LocalStorage under STORAGE_KEY

vars == <<doc, overflow_checks, result, prev, ips, call, editor, storage>>

(***************************************************************************)
(* Outcomes of a call.                                                     *)
(***************************************************************************)
NoResult == [tag |-> "None"]

Panic == [tag |-> "Panic"]

Ok(v) == [tag |-> "Ok", value |-> v]

Err(kind, args) == [tag |-> "Err", kind |-> kind, args |-> args]

IsOk(r) == r.tag = "Ok"

None == <<>>

Some(v) == <<v>>

(***************************************************************************)
(* Strings as character sequences.                                         *)
(***************************************************************************)
Digits == <<"0", "1", "2", "3", "4", "5", "6", "7", "8", "9">>

\* u8::to_string: the decimal digits of n, most significant first
RECURSIVE to_string(_)
to_string(n) ==
    IF n < 10 THEN <<Digits[n + 1]>>
    ELSE to_string(n \div 10) \o <<Digits[(n % 10) + 1]>>

\* str::replace(c, r): every occurrence of the character c replaced by r
RECURSIVE replace(_, _, _)
replace(s, c, r) ==
    IF s = <<>> THEN <<>>
    ELSE (IF Head(s) = c THEN r ELSE <<Head(s)>>) \o replace(Tail(s), c, r)

\* a placeholder test that knows the lower-case letter only
has_placeholder_lowercase_only(ip_template) ==
    \E i \in 1..Len(ip_template) : ip_template[i] = "x"

\* ip_template.chars().any(|c| c == 'x' || c == 'X')
has_placeholder(ip_template) ==
    \E i \in 1..Len(ip_template) : ip_template[i] = "x" \/ ip_template[i] = "X"

\* a replacement of the lower-case placeholder only
substitute_lowercase_only(ip_template, n) ==
    replace(ip_template, "x", to_string(n))

\* ip_template.replace('X', n).replace('x', n)
substitute(ip_template, n) ==
    replace(replace(ip_template, "X", to_string(n)), "x", to_string(n))

(***************************************************************************)
(* The IP generator schemes.                                               *)
(***************************************************************************)
OneTeam == [scheme |-> "OneTeam", multiplier |-> 0]

ReplaceXWithId == [scheme |-> "ReplaceXWithId", multiplier |-> 0]

ReplaceXWithIdTimesMultiplierPlusOffset(m) ==
    [scheme |-> "ReplaceXWithIdTimesMultiplierPlusOffset", multiplier |-> m]

IsMultiplierScheme(generator) ==
    generator.scheme = "ReplaceXWithIdTimesMultiplierPlusOffset"

U8 == 256

\* multiplier * id + ip_offset in u8: the exact value, and whether the
\* multiplication or the addition leaves the u8 range
u8_mul_add_overflows(multiplier, id, ip_offset) ==
    \/ multiplier * id >= U8
    \/ multiplier * id + ip_offset >= U8

\* the arithmetic with the sum taken before the product
u8_mul_add_sum_first(multiplier, id, ip_offset) ==
    (multiplier * (id + ip_offset)) % U8

u8_mul_add(multiplier, id, ip_offset) ==
    (((multiplier * id) % U8) + ip_offset) % U8

(***************************************************************************)
(* convert_id_to_ip: resolves the host of one machine for one team.        *)
(* used_ips is the collision map (a function from addresses to machine     *)
(* names).  The value is [used_ips, res]: the map after the call and the   *)
(* Ok(host), Err(..) or Panic the call returns.                            *)
(***************************************************************************)
\* an insert that was forgotten
map_without_insert(m, k, v) == m

map_insert(m, k, v) == [x \in DOMAIN m \cup {k} |-> IF x = k THEN v ELSE m[x]]

EmptyMap == [x \in {} |-> ""]

\* a resolver that records every address it hands out, whoever holds it
convert_id_to_ip_overwriting(used_ips, machine_name, ip_template, ip_offset, generator, id) ==
    CASE generator.scheme = "OneTeam" ->
           IF has_placeholder(ip_template)
           THEN [used_ips |-> used_ips, res |-> Err("XInManualIP", <<machine_name>>)]
           ELSE [used_ips |-> map_insert(used_ips, ip_template, machine_name),
                 res |-> Ok(ip_template)]
      [] generator.scheme = "ReplaceXWithId" ->
           IF ~has_placeholder(ip_template)
           THEN [used_ips |-> used_ips, res |-> Err("NoXInTemplateIP", <<machine_name>>)]
           ELSE [used_ips |-> map_insert(used_ips, substitute(ip_template, id), machine_name),
                 res |-> Ok(substitute(ip_template, id))]
      [] IsMultiplierScheme(generator) ->
           IF ip_offset = None
           THEN [used_ips |-> used_ips,
                 res |-> Err("OffsetNotSpecified", <<machine_name>>)]
           ELSE IF /\ overflow_checks
                   /\ u8_mul_add_overflows(generator.multiplier, id, ip_offset[1])
           THEN [used_ips |-> used_ips, res |-> Panic]
           ELSE IF has_placeholder(ip_template)
           THEN [used_ips |-> used_ips,
                 res |-> Ok(substitute(ip_template,
                                       u8_mul_add(generator.multiplier, id, ip_offset[1])))]
           ELSE [used_ips |-> used_ips,
                 res |-> Err("NoXInTemplateIP", <<machine_name>>)]

convert_id_to_ip(used_ips, machine_name, ip_template, ip_offset, generator, id) ==
    CASE generator.scheme = "OneTeam" ->
           IF has_placeholder(ip_template)
           THEN [used_ips |-> used_ips, res |-> Err("XInManualIP", <<machine_name>>)]
           ELSE IF /\ ip_template \in DOMAIN used_ips
                   /\ used_ips[ip_template] # machine_name
           THEN [used_ips |-> used_ips,
                 res |-> Err("DuplicateIPs",
                             <<ip_template, machine_name, used_ips[ip_template]>>)]
           ELSE [used_ips |-> map_insert(used_ips, ip_template, machine_name),
                 res |-> Ok(ip_template)]
      [] generator.scheme = "ReplaceXWithId" ->
           IF ~has_placeholder(ip_template)
           THEN [used_ips |-> used_ips, res |-> Err("NoXInTemplateIP", <<machine_name>>)]
           ELSE LET ip == substitute(ip_template, id) IN
                IF ip \in DOMAIN used_ips /\ used_ips[ip] # machine_name
                THEN [used_ips |-> used_ips,
                      res |-> Err("DuplicateIPs", <<ip, machine_name, used_ips[ip]>>)]
                ELSE [used_ips |-> map_insert(used_ips, ip, machine_name),
                      res |-> Ok(ip)]
      [] IsMultiplierScheme(generator) ->
           IF ip_offset = None
           THEN [used_ips |-> used_ips,
                 res |-> Err("OffsetNotSpecified", <<machine_name>>)]
           ELSE IF /\ overflow_checks
                   /\ u8_mul_add_overflows(generator.multiplier, id, ip_offset[1])
           THEN [used_ips |-> used_ips, res |-> Panic]
           ELSE LET ip == u8_mul_add(generator.multiplier, id, ip_offset[1]) IN
                IF has_placeholder(ip_template)
                THEN [used_ips |-> used_ips, res |-> Ok(substitute(ip_template, ip))]
                ELSE [used_ips |-> used_ips,
                      res |-> Err("NoXInTemplateIP", <<machine_name>>)]

(***************************************************************************)
(* Service definitions.  A definition is [type, environment]; for the      *)
(* kinds with check records environment is the sequence of records, for    *)
(* Icmp, Rdp and Vnc it is the optional matcher.  Record fields are        *)
(* strings; touser is a character sequence because the code looks for '@'  *)
(* in it.                                                                  *)
(***************************************************************************)
\* a test that takes every string for non-empty
is_empty_never(s) == FALSE

is_empty(s) == Len(s) = 0

len_not_64(hash) == Len(hash) # 64

no_at(email) == ~\E i \in 1..Len(email) : email[i] = "@"

holds(check, v) ==
    CASE check = "is_empty" -> is_empty(v)
      [] check = "len_not_64" -> len_not_64(v)
      [] check = "no_at" -> no_at(v)

Rule(f, checks) == [field |-> f, checks |-> checks]

McRule == Rule("matching_content", << <<"is_empty", "Service match cannot be empty">> >>)

\* the rule list each service_definition_check! invocation is written with
check_rules(type) ==
    CASE type = "Dns" ->
           <<McRule,
             Rule("qtype", << <<"is_empty", "DNS query type cannot be empty">> >>),
             Rule("domain", << <<"is_empty", "Domain queried cannot be empty">> >>)>>
      [] type = "Elasticsearch" ->
           <<McRule,
             Rule("index", << <<"is_empty", "Index cannot be empty">> >>),
             Rule("doc_type", << <<"is_empty", "Document type cannot be empty">> >>)>>
      [] type = "Ftp" ->
           <<McRule,
             Rule("filecontents", << <<"is_empty", "File contents cannot be empty">> >>),
             Rule("remotefilepath",
                  << <<"is_empty", "Remote file path cannot be empty">> >>)>>
      [] type \in {"Http", "Https", "Wordpress"} ->
           <<McRule,
             Rule("useragent", << <<"is_empty", "User agent cannot be empty">> >>),
             Rule("vhost", << <<"is_empty", "Virtual host cannot be empty">> >>),
             Rule("uri", << <<"is_empty", "URI cannot be empty">> >>)>>
      [] type \in {"Imap", "Imaps"} ->
           <<McRule,
             Rule("domain", << <<"is_empty", "IMAP domain cannot be empty">> >>)>>
      [] type = "Ldap" ->
           <<McRule,
             Rule("domain", << <<"is_empty", "LDAP domain cannot be empty">> >>),
             Rule("base_dn", << <<"is_empty", "Base DN cannot be empty">> >>)>>
      [] type \in {"Mssql", "Mysql", "PostgreSql"} ->
           <<McRule,
             Rule("database", << <<"is_empty", "Database cannot be empty">> >>),
             Rule("command", << <<"is_empty", "Command to execute cannot be empty">> >>)>>
      [] type = "Nfs" ->
           <<McRule,
             Rule("remotefilepath",
                  << <<"is_empty", "Remote file path cannot be empty">> >>),
             Rule("filecontents", << <<"is_empty", "File contents cannot be empty">> >>)>>
      [] type \in {"Pop3", "Pop3s"} ->
           <<McRule,
             Rule("domain", << <<"is_empty", "Domain cannot be empty">> >>)>>
      [] type = "Smb" ->
           <<McRule,
             Rule("remote_name", << <<"is_empty", "Remote name cannot be empty">> >>),
             Rule("share", << <<"is_empty", "Share name cannot be empty">> >>),
             Rule("file", << <<"is_empty", "File name cannot be empty">> >>),
             Rule("hash", << <<"is_empty", "File hash cannot be empty">>,
                             <<"len_not_64", "File hash must be 64 characters">> >>)>>
      [] type \in {"Smtp", "Smtps"} ->
           <<McRule,
             Rule("touser", << <<"is_empty", "'To' destination email cannot be empty">>,
                               <<"no_at", "Email must contain an '@' symbol">> >>)>>
      [] type \in {"Ssh", "WinRm"} ->
           <<Rule("matching_content",
                  << <<"is_empty", "Service match must be empty">> >>),
             Rule("commands", << <<"is_empty", "Commands cannot be empty">> >>)>>

RecordKinds ==
    {"Dns", "Elasticsearch", "Ftp", "Http", "Https", "Wordpress", "Imap", "Imaps",
     "Ldap", "Mssql", "Mysql", "PostgreSql", "Nfs", "Pop3", "Pop3s", "Smb", "Smtp",
     "Smtps", "Ssh", "WinRm"}

MatcherKinds == {"Icmp", "Rdp", "Vnc"}

\* errs of one rule: one message per check of the rule that fires
RECURSIVE rule_errs(_, _)
rule_errs(checks, v) ==
    IF checks = <<>> THEN <<>>
    ELSE (IF holds(Head(checks)[1], v) THEN <<Head(checks)[2]>> ELSE <<>>)
         \o rule_errs(Tail(checks), v)

\* [ ... ].concat(): the messages of all rules violated by the record
RECURSIVE record_errs(_, _)
record_errs(rules, item) ==
    IF rules = <<>> THEN <<>>
    ELSE rule_errs(Head(rules).checks, item[Head(rules).field])
         \o record_errs(Tail(rules), item)

\* errs.join(", ")
RECURSIVE join(_)
join(errs) ==
    IF Len(errs) = 1 THEN errs[1]
    ELSE errs[1] \o ", " \o join(Tail(errs))

\* an environment that forgets what it has to match
environment_without_content(mc, props) == [matching_content |-> "", properties |-> props]

Environment(mc, props) == [matching_content |-> mc, properties |-> props]

\* the properties vec!: one entry per field of the rule list after matching_content
record_properties(rules, item) ==
    [i \in 1..(Len(rules) - 1) |->
        [name |-> rules[i + 1].field, value |-> item[rules[i + 1].field]]]

\* the closure mapped over the records of service_definition_check!
check_record(rules, item, mname, sname) ==
    LET errs == record_errs(rules, item) IN
    IF errs = <<>>
    THEN Ok(Environment(item.matching_content, record_properties(rules, item)))
    ELSE Err("ServiceNotFullyConfigured", <<mname, sname, join(errs)>>)

\* a collection that drops the failed items and keeps the others
RECURSIVE collect_skipping_errors(_, _)
collect_skipping_errors(results, acc) ==
    IF results = <<>> THEN Ok(acc)
    ELSE collect_skipping_errors(
             Tail(results),
             IF IsOk(Head(results)) THEN Append(acc, Head(results).value) ELSE acc)

\* .collect::<Result<Vec<_>, _>>(): the values, or the first error in order
RECURSIVE collect(_, _)
collect(results, acc) ==
    IF results = <<>> THEN Ok(acc)
    ELSE IF IsOk(Head(results))
         THEN collect(Tail(results), Append(acc, Head(results).value))
         ELSE Head(results)

\* ServiceDefinition::environments
environments(definition, mname, sname) ==
    CASE definition.type \in RecordKinds ->
           collect([i \in 1..Len(definition.environment) |->
                       check_record(check_rules(definition.type),
                                    definition.environment[i], mname, sname)],
                   <<>>)
      [] definition.type = "Icmp" /\ definition.environment = None ->
           Ok(<<Environment("1 packets transmitted, 1 received", <<>>)>>)
      [] definition.type = "Rdp" /\ definition.environment = None ->
           Ok(<<Environment("SUCCESS$", <<>>)>>)
      [] definition.type = "Vnc" /\ definition.environment = None ->
           Ok(<<Environment("ACCOUNT FOUND", <<>>)>>)
      [] definition.type \in MatcherKinds /\ definition.environment # None ->
           Ok(<<Environment(definition.environment[1], <<>>)>>)
      [] OTHER -> Ok(<<>>)

\* a check_name that answers with the name of the first kind it knows
check_name_of_one_kind(definition) == "ICMPCheck"

\* ServiceDefinition::check_name
check_name(definition) ==
    CASE definition.type = "Dns" -> "DNSCheck"
      [] definition.type = "Docker" -> "DockerCheck"
      [] definition.type = "Elasticsearch" -> "ElasticsearchCheck"
      [] definition.type = "Ftp" -> "FTPCheck"
      [] definition.type = "Http" -> "HTTPCheck"
      [] definition.type = "Https" -> "HTTPSCheck"
      [] definition.type = "Icmp" -> "ICMPCheck"
      [] definition.type = "Imap" -> "IMAPCheck"
      [] definition.type = "Imaps" -> "IMAPSCheck"
      [] definition.type = "Ldap" -> "LDAPCheck"
      [] definition.type = "Mssql" -> "MSSQLCheck"
      [] definition.type = "Mysql" -> "MYSQLCheck"
      [] definition.type = "Nfs" -> "NFSCheck"
      [] definition.type = "Pop3" -> "POP3Check"
      [] definition.type = "Pop3s" -> "POP3SCheck"
      [] definition.type = "PostgreSql" -> "PostgreSQLCheck"
      [] definition.type = "Rdp" -> "RDPCheck"
      [] definition.type = "Smb" -> "SMBCheck"
      [] definition.type = "Smtp" -> "SMTPCheck"
      [] definition.type = "Smtps" -> "SMTPSCheck"
      [] definition.type = "Ssh" -> "SSHCheck"
      [] definition.type = "Vnc" -> "VNCCheck"
      [] definition.type = "WinRm" -> "WinRMCheck"
      [] definition.type = "Wordpress" -> "WordpressCheck"

(***************************************************************************)
(* convert_editor_to_final, stage by stage.  A stage that can only fail    *)
(* is the set of errors it may return: empty when it passes, more than one *)
(* element when the error depends on a HashMap's iteration order.          *)
(***************************************************************************)

\* User::validate
validate(user, where_) ==
    IF user.username = "" \/ user.password = ""
    THEN Err("EmptyUsernameOrPassword", <<where_, user.username>>)
    ELSE Ok(user)

\* the closure with the user check placed before the name check
red_white_team_users_first(team) ==
    IF team.users = <<>> THEN Err("TeamNeedsUser", <<team.name>>)
    ELSE IF team.name = "" THEN Err("TeamHasEmptyName", <<>>)
    ELSE Ok([color |-> IF team.white_team THEN "White" ELSE "Red",
             name |-> team.name,
             users |-> team.users])

\* the closure mapped over config.red_white_teams: name, then users
red_white_team(team) ==
    IF team.name = "" THEN Err("TeamHasEmptyName", <<>>)
    ELSE IF team.users = <<>> THEN Err("TeamNeedsUser", <<team.name>>)
    ELSE Ok([color |-> IF team.white_team THEN "White" ELSE "Red",
             name |-> team.name,
             users |-> team.users])

red_white_stage(config) ==
    collect([i \in 1..Len(config.red_white_teams) |->
                red_white_team(config.red_white_teams[i])],
            <<>>)

one_team_guard(config) ==
    IF config.ip_generator.scheme = "OneTeam" /\ Len(config.blue_teams) > 1
    THEN {Err("OneTeamConfigurationWithMultipleTeams", <<>>)}
    ELSE {}

\* the first machine without an offset, 0 when every machine has one
RECURSIVE first_missing_offset(_, _)
first_missing_offset(machines, i) ==
    IF i > Len(machines) THEN 0
    ELSE IF machines[i].ip_offset = None THEN i
    ELSE first_missing_offset(machines, i + 1)

\* offset_unique_detection after the loop over (off, mname)
RECURSIVE offset_unique_detection(_, _, _)
offset_unique_detection(machines, i, map) ==
    IF i > Len(machines) THEN map
    ELSE LET off == machines[i].ip_offset[1]
             mname == machines[i].name IN
         offset_unique_detection(
             machines, i + 1,
             IF off \in DOMAIN map
             THEN [map EXCEPT ![off] = Append(@, mname)]
             ELSE map_insert(map, off, <<mname>>))

EmptyListMap == [x \in {} |-> <<>>]

\* the checks without the one for machines that have no offset
multiplier_checks_without_missing_offset(config) ==
    IF ~IsMultiplierScheme(config.ip_generator) THEN {}
    ELSE LET mult == config.ip_generator.multiplier
             mcount == Len(config.machines) IN
         IF mcount >= U8 THEN {Panic}
         ELSE IF mult < mcount THEN {Err("MultNotBigEnough", <<mcount, mult>>)}
         ELSE IF first_missing_offset(config.machines, 1) # 0 THEN {}
         ELSE LET map == offset_unique_detection(config.machines, 1, EmptyListMap) IN
              {Err("DuplicateOffsets", map[off]) :
                  off \in {o \in DOMAIN map : Len(map[o]) > 1}}

multiplier_checks(config) ==
    IF ~IsMultiplierScheme(config.ip_generator) THEN {}
    ELSE LET mult == config.ip_generator.multiplier
             mcount == Len(config.machines)
             missing == first_missing_offset(config.machines, 1) IN
         IF mcount >= U8 THEN {Panic}
         ELSE IF mult < mcount THEN {Err("MultNotBigEnough", <<mcount, mult>>)}
         ELSE IF missing # 0
         THEN {Err("MissingOffset", <<config.machines[missing].name>>)}
         ELSE LET map == offset_unique_detection(config.machines, 1, EmptyListMap) IN
              {Err("DuplicateOffsets", map[off]) :
                  off \in {o \in DOMAIN map : Len(map[o]) > 1}}

\* the loop without machine_names.insert: no name is remembered
RECURSIVE machine_names_check_without_insert(_, _, _)
machine_names_check_without_insert(machines, i, machine_names) ==
    IF i > Len(machines) THEN {}
    ELSE IF machines[i].name = "" THEN {Err("MachineHasEmptyName", <<>>)}
    ELSE IF machines[i].name \in machine_names
    THEN {Err("DuplicateMachineNames", <<machines[i].name>>)}
    ELSE machine_names_check_without_insert(machines, i + 1, machine_names)

\* the loop over config.machines with the HashSet machine_names
RECURSIVE machine_names_check(_, _, _)
machine_names_check(machines, i, machine_names) ==
    IF i > Len(machines) THEN {}
    ELSE IF machines[i].name = "" THEN {Err("MachineHasEmptyName", <<>>)}
    ELSE IF machines[i].name \in machine_names
    THEN {Err("DuplicateMachineNames", <<machines[i].name>>)}
    ELSE machine_names_check(machines, i + 1, machine_names \cup {machines[i].name})

\* the loop with insert in both branches: a later team replaces the list of
\* its id instead of being pushed onto it
RECURSIVE blue_ids_map_overwrite(_, _, _)
blue_ids_map_overwrite(blue_teams, i, map) ==
    IF i > Len(blue_teams) THEN map
    ELSE blue_ids_map_overwrite(
             blue_teams, i + 1,
             map_insert(map, blue_teams[i].id, <<blue_teams[i].name>>))

\* blue_ids_map after the loop over config.blue_teams
RECURSIVE blue_ids_map(_, _, _)
blue_ids_map(blue_teams, i, map) ==
    IF i > Len(blue_teams) THEN map
    ELSE LET team == blue_teams[i] IN
         blue_ids_map(
             blue_teams, i + 1,
             IF team.id \in DOMAIN map
             THEN [map EXCEPT ![team.id] = Append(@, team.name)]
             ELSE map_insert(map, team.id, <<team.name>>))

blue_ids_check(config) ==
    LET map == blue_ids_map(config.blue_teams, 1, EmptyListMap) IN
    {Err("DuplicateBlueTeamIDs", <<id, map[id]>>) :
        id \in {i \in DOMAIN map : Len(map[i]) > 1}}

\* the loop over machine.services with the HashSet service_names
RECURSIVE service_names_check(_, _, _)
service_names_check(machine, j, service_names) ==
    IF j > Len(machine.services) THEN {}
    ELSE LET service == machine.services[j] IN
         IF service.name = ""
         THEN {Err("MachineHasEmptyService", <<machine.name>>)}
         ELSE IF service.name \in service_names
         THEN {Err("DuplicateServiceName", <<machine.name, service.name>>)}
         ELSE service_names_check(machine, j + 1, service_names \cup {service.name})

\* service.accounts.clone().map(|users| ... validate ...).transpose()
validate_accounts(accounts, where_) ==
    IF accounts = None THEN Ok(None)
    ELSE LET users == collect([k \in 1..Len(accounts[1]) |->
                                  validate(accounts[1][k], where_)],
                              <<>>) IN
         IF IsOk(users) THEN Ok(Some(users.value)) ELSE users

\* the closure mapped over machine.services, from service j on: the fields of
\* ServiceConfig are evaluated in the order host, accounts, environments
RECURSIVE machine_services(_, _, _, _, _, _)
machine_services(used_ips, config, team, machine, j, acc) ==
    IF j > Len(machine.services) THEN [used_ips |-> used_ips, res |-> Ok(acc)]
    ELSE LET service == machine.services[j]
             host == convert_id_to_ip(used_ips, machine.name, machine.ip_template,
                                      machine.ip_offset, config.ip_generator, team.id)
             accounts == validate_accounts(
                             service.accounts,
                             "service " \o machine.name \o "-" \o service.name)
             envs == environments(service.definition, machine.name, service.name) IN
         IF ~IsOk(host.res) THEN host
         ELSE IF ~IsOk(accounts) THEN [used_ips |-> host.used_ips, res |-> accounts]
         ELSE IF ~IsOk(envs) THEN [used_ips |-> host.used_ips, res |-> envs]
         ELSE machine_services(
                  host.used_ips, config, team, machine, j + 1,
                  Append(acc,
                         [name |-> machine.name \o "-"
                                   \o check_name(service.definition) \o "-"
                                   \o service.name,
                          check_name |-> check_name(service.definition),
                          host |-> host.res.value,
                          port |-> service.port,
                          points |-> service.points,
                          accounts |-> accounts.value,
                          environments |-> envs.value]))

\* services_generator, from machine i on; acc is the concatenation so far
RECURSIVE services_generator_from(_, _, _, _, _)
services_generator_from(used_ips, config, team, i, acc) ==
    IF i > Len(config.machines) THEN [used_ips |-> used_ips, res |-> Ok(acc)]
    ELSE LET machine == config.machines[i]
             names == service_names_check(machine, 1, {})
             services == machine_services(used_ips, config, team, machine, 1, <<>>) IN
         IF names # {}
         THEN [used_ips |-> used_ips, res |-> CHOOSE e \in names : TRUE]
         ELSE IF ~IsOk(services.res) THEN services
         ELSE services_generator_from(services.used_ips, config, team, i + 1,
                                      acc \o services.res.value)

services_generator(conversion_state, config, team) ==
    services_generator_from(conversion_state, config, team, 1, <<>>)

\* the closure with the services generated before the name and the users are
\* checked
RECURSIVE blue_stage_services_first(_, _, _, _)
blue_stage_services_first(conversion_state, config, i, acc) ==
    IF i > Len(config.blue_teams)
    THEN [used_ips |-> conversion_state, res |-> Ok(acc)]
    ELSE LET team == config.blue_teams[i]
             services == services_generator(conversion_state, config, team) IN
         IF ~IsOk(services.res) THEN services
         ELSE IF team.name = ""
         THEN [used_ips |-> conversion_state, res |-> Err("TeamHasEmptyName", <<>>)]
         ELSE IF team.users = <<>>
         THEN [used_ips |-> conversion_state,
               res |-> Err("TeamNeedsUser", <<team.name>>)]
         ELSE blue_stage_services_first(
                  services.used_ips, config, i + 1,
                  Append(acc, [color |-> "Blue",
                               name |-> team.name,
                               users |-> team.users,
                               services |-> services.res.value]))

\* the closure mapped over config.blue_teams, from team i on: name, users,
\* then services
RECURSIVE blue_stage(_, _, _, _)
blue_stage(conversion_state, config, i, acc) ==
    IF i > Len(config.blue_teams)
    THEN [used_ips |-> conversion_state, res |-> Ok(acc)]
    ELSE LET team == config.blue_teams[i]
             services == services_generator(conversion_state, config, team) IN
         IF team.name = ""
         THEN [used_ips |-> conversion_state, res |-> Err("TeamHasEmptyName", <<>>)]
         ELSE IF team.users = <<>>
         THEN [used_ips |-> conversion_state,
               res |-> Err("TeamNeedsUser", <<team.name>>)]
         ELSE IF ~IsOk(services.res) THEN services
         ELSE blue_stage(services.used_ips, config, i + 1,
                         Append(acc, [color |-> "Blue",
                                      name |-> team.name,
                                      users |-> team.users,
                                      services |-> services.res.value]))

\* user.username of every user of the list, in order
usernames_of(users) == [k \in 1..Len(users) |-> users[k].username]

\* the map names after add_names!(teams) for the teams from i on
RECURSIVE add_names(_, _, _)
add_names(teams, i, names) ==
    IF i > Len(teams) THEN names
    ELSE LET team == teams[i] IN
         add_names(
             teams, i + 1,
             IF team.name \in DOMAIN names
             THEN [names EXCEPT ![team.name] = @ \o usernames_of(team.users)]
             ELSE map_insert(names, team.name, usernames_of(team.users)))

usernames_check(blue, red_white) ==
    LET names == add_names(red_white, 1, add_names(blue, 1, EmptyListMap)) IN
    {Err("DuplicateUserNameForTeams", <<team_name, names[team_name]>>) :
        team_name \in {n \in DOMAIN names : Len(names[n]) > 1}}

\* let config = config.clone()
clone(config) == config

\* a returned editor document that lost the machines' offsets
returned_editor_without_offsets(config) ==
    [config EXCEPT !.machines =
        [i \in 1..Len(config.machines) |-> [config.machines[i] EXCEPT !.ip_offset = None]]]

\* the editor document returned next to the final document: the clone itself
returned_editor(config) == config

\* the conversion with the blue-team id check placed before the machine-name
\* check
convert_editor_to_final_ids_first(input) ==
    LET config == clone(input)
        red_white == red_white_stage(config)
        guard == one_team_guard(config)
        mult == multiplier_checks(config)
        machines == machine_names_check(config.machines, 1, {})
        ids == blue_ids_check(config)
        blue == blue_stage(EmptyMap, config, 1, <<>>).res IN
    IF ~IsOk(red_white) THEN {red_white}
    ELSE IF guard # {} THEN guard
    ELSE IF mult # {} THEN mult
    ELSE IF ids # {} THEN ids
    ELSE IF machines # {} THEN machines
    ELSE IF ~IsOk(blue) THEN {blue}
    ELSE LET users == usernames_check(blue.value, red_white.value) IN
         IF users # {} THEN users
         ELSE {Ok([final |-> [teams |-> red_white.value \o blue.value],
                   editor |-> returned_editor(config)])}

\* convert_editor_to_final: the set of outcomes a call on config may have
convert_editor_to_final(input) ==
    LET config == clone(input)
        red_white == red_white_stage(config)
        guard == one_team_guard(config)
        mult == multiplier_checks(config)
        machines == machine_names_check(config.machines, 1, {})
        ids == blue_ids_check(config)
        blue == blue_stage(EmptyMap, config, 1, <<>>).res IN
    IF ~IsOk(red_white) THEN {red_white}
    ELSE IF guard # {} THEN guard
    ELSE IF mult # {} THEN mult
    ELSE IF machines # {} THEN machines
    ELSE IF ids # {} THEN ids
    ELSE IF ~IsOk(blue) THEN {blue}
    ELSE LET users == usernames_check(blue.value, red_white.value) IN
         IF users # {} THEN users
         ELSE {Ok([final |-> [teams |-> red_white.value \o blue.value],
                   editor |-> returned_editor(config)])}

(***************************************************************************)
(* Editor documents (ConfigurationEditor and its parts).                   *)
(***************************************************************************)
User(username, password) == [username |-> username, password |-> password]

ServiceEditor(name, definition, accounts) ==
    [name |-> name, port |-> 80, points |-> 100,
     definition |-> definition, accounts |-> accounts]

MachineEditor(name, services, ip_template, ip_offset) ==
    [name |-> name, services |-> services,
     ip_template |-> ip_template, ip_offset |-> ip_offset]

BlueTeamEditor(id, name, users) == [id |-> id, name |-> name, users |-> users]

RedWhiteTeamEditor(name, users, white_team) ==
    [name |-> name, users |-> users, white_team |-> white_team]

ConfigurationEditor(red_white_teams, blue_teams, machines, ip_generator) ==
    [red_white_teams |-> red_white_teams, blue_teams |-> blue_teams,
     machines |-> machines, ip_generator |-> ip_generator]

Icmp(environment) == [type |-> "Icmp", environment |-> environment]

(***************************************************************************)
(* The call.  The caller keeps the outcome of the latest call and of the   *)
(* one before it; the document is borrowed immutably.                      *)
(***************************************************************************)
Convert ==
    /\ \E r \in convert_editor_to_final(doc) :
          /\ result' = r
          /\ prev' = result
    /\ UNCHANGED <<doc, overflow_checks, ips, call, editor, storage>>

Next == Convert

\* team ids the resolver is called with
ResolveIds == {1, 2}

\* one call of convert_id_to_ip, for a machine of the document and a team id,
\* on the ConversionState the calls before it left
Resolve ==
    /\ \E i \in 1..Len(doc.machines), team_id \in ResolveIds :
          LET machine == doc.machines[i]
              r == convert_id_to_ip(ips, machine.name, machine.ip_template,
                                    machine.ip_offset, doc.ip_generator, team_id) IN
          /\ ips' = r.used_ips
          /\ call' = [used_ips |-> ips,
                      machine_name |-> machine.name,
                      ip_template |-> machine.ip_template,
                      generator |-> doc.ip_generator,
                      id |-> team_id,
                      res |-> r.res]
    /\ UNCHANGED <<doc, overflow_checks, result, prev, editor, storage>>

\* the build matters only where u8 arithmetic is executed: under the
\* multiplier scheme
Builds(config) == IF IsMultiplierScheme(config.ip_generator) THEN BOOLEAN ELSE {FALSE}

\* the EditorState in which the output view shows the configuration
Rendering(config) ==
    [error |-> None,
     configs |-> <<[name |-> "c", config |-> config]>>,
     state |-> [tag |-> "HasConfig", config |-> 0, current_view |-> "Output",
                currently_hovered_machine_name |-> None, service_to_drop |-> None]]

InitWith(Docs) ==
    /\ doc \in Docs
    /\ editor = Rendering(doc)
    /\ storage = editor.configs
    /\ overflow_checks \in Builds(doc)
    /\ result = NoResult
    /\ prev = NoResult
    /\ ips = EmptyMap
    /\ call = NoResult

SeqsUpTo(S, n) == UNION {[1..k -> S] : k \in 0..n}

(***************************************************************************)
(* Input documents of SpecIp: the three schemes, blue teams that differ in *)
(* their ids, machines that differ in template and offset.                 *)
(***************************************************************************)
MaxBlue == 2

MaxMachines == 2

TeamNames == <<"a", "b", "c", "d", "e">>

TeamUsernames == <<"u", "v", "w", "y", "z">>

MachineNames == <<"m", "n", "o", "q">>

T_10_0_0_X == <<"1", "0", ".", "0", ".", "0", ".", "X">>

T_1x == <<"1", "x">>

T_11 == <<"1", "1">>

IpTemplates == {T_10_0_0_X, T_1x, T_11}

IpOffsets == {None, Some(2), Some(5)}

IpTeamIds == {1, 2}

IpSchemes ==
    {OneTeam, ReplaceXWithId} \cup
    {ReplaceXWithIdTimesMultiplierPlusOffset(m) : m \in {1, 3, 10, 128}}

\* blue team i of a document: its own name, one user of its own
IpBlueTeams(ids) ==
    [i \in 1..Len(ids) |->
        BlueTeamEditor(ids[i], TeamNames[i], <<User(TeamUsernames[i], "p")>>)]

\* machine i of a document: its own name, one ICMP service
IpMachines(ms) ==
    [i \in 1..Len(ms) |->
        MachineEditor(MachineNames[i], <<ServiceEditor("s", Icmp(None), None)>>,
                      ms[i][1], ms[i][2])]

IpDocs(maxBlue, maxMachines) ==
    {ConfigurationEditor(<<>>, IpBlueTeams(ids), IpMachines(ms), g) :
        ids \in SeqsUpTo(IpTeamIds, maxBlue),
        ms \in SeqsUpTo(IpTemplates \X IpOffsets, maxMachines),
        g \in IpSchemes}

InitIp == InitWith(IpDocs(MaxBlue, MaxMachines))

SpecIp == InitIp /\ [][Next]_vars

(***************************************************************************)
(* Input documents of SpecIds: blue teams that differ in their ids, with   *)
(* red/white teams, machines and schemes that pass or fail the steps       *)
(* before the id check.                                                    *)
(***************************************************************************)
MaxIdTeams == 4

IdTeamIds == {0, 1, 2}

IdRedWhite ==
    {<<>>,
     <<RedWhiteTeamEditor("r", <<User("k", "p")>>, FALSE)>>,
     <<RedWhiteTeamEditor("", <<User("k", "p")>>, TRUE)>>}

IdMachines ==
    {<<>>,
     IpMachines(<<<<T_10_0_0_X, Some(5)>>>>),
     <<MachineEditor("m", <<>>, T_10_0_0_X, Some(2)),
       MachineEditor("m", <<>>, T_1x, Some(5))>>}

IdSchemes == {OneTeam, ReplaceXWithId, ReplaceXWithIdTimesMultiplierPlusOffset(1)}

IdDocs(maxTeams) ==
    {ConfigurationEditor(rw, IpBlueTeams(ids), ms, g) :
        rw \in IdRedWhite,
        ids \in SeqsUpTo(IdTeamIds, maxTeams),
        ms \in IdMachines,
        g \in IdSchemes}

InitIds == InitWith(IdDocs(MaxIdTeams))

SpecIds == InitIds /\ [][Next]_vars

(***************************************************************************)
(* Input documents of Spec: up to MaxTeams teams of any colour, each with  *)
(* up to MaxUsers users, some of them with an empty username or password;  *)
(* no machine, or one machine with one service with or without accounts.   *)
(***************************************************************************)
MaxTeams == 2

MaxUsers == 2

Users == {User("u", "p"), User("v", "p"), User("u", ""), User("", "p")}

\* a team of the document: red and white teams have no id
TeamChoices(maxUsers) ==
    {[color |-> c, id |-> 0, name |-> n, users |-> us] :
        c \in {"Red", "White"}, n \in {"a", "b"}, us \in SeqsUpTo(Users, maxUsers)}
    \cup
    {[color |-> "Blue", id |-> i, name |-> n, users |-> us] :
        i \in {0, 1, 2}, n \in {"a", "b"}, us \in SeqsUpTo(Users, maxUsers)}

IsBlueChoice(t) == t.color = "Blue"

IsRedWhiteChoice(t) == t.color # "Blue"

ToRedWhite(ts) ==
    [i \in 1..Len(ts) |-> RedWhiteTeamEditor(ts[i].name, ts[i].users, ts[i].color = "White")]

ToBlue(ts) == [i \in 1..Len(ts) |-> BlueTeamEditor(ts[i].id, ts[i].name, ts[i].users)]

AccountChoices == {None, Some(<<User("k", "p"), User("u", "")>>), Some(<<User("", "p")>>)}

TeamDocMachines ==
    {<<>>} \cup
    {<<MachineEditor("m", <<ServiceEditor("s", Icmp(None), acc)>>, T_10_0_0_X, None)>> :
        acc \in AccountChoices}

TeamDocs(maxTeams, maxUsers) ==
    {ConfigurationEditor(ToRedWhite(SelectSeq(ts, IsRedWhiteChoice)),
                         ToBlue(SelectSeq(ts, IsBlueChoice)), ms, ReplaceXWithId) :
        ts \in SeqsUpTo(TeamChoices(maxUsers), maxTeams), ms \in TeamDocMachines}

Init == InitWith(TeamDocs(MaxTeams, MaxUsers))

Spec == Init /\ [][Next]_vars

(***************************************************************************)
(* Check records.  CheckInfo(type) lists the fields the record type of a   *)
(* kind declares after matching_content, in declaration order; a record is *)
(* a function from its field names to their values.                        *)
(***************************************************************************)
CheckInfo(type) ==
    CASE type = "Dns" -> <<"qtype", "domain">>
      [] type = "Elasticsearch" -> <<"index", "doc_type">>
      [] type = "Ftp" -> <<"remotefilepath", "filecontents">>
      [] type \in {"Http", "Https", "Wordpress"} -> <<"useragent", "vhost", "uri">>
      [] type \in {"Imap", "Imaps"} -> <<"domain">>
      [] type = "Ldap" -> <<"domain", "base_dn">>
      [] type \in {"Mssql", "Mysql", "PostgreSql"} -> <<"database", "command">>
      [] type = "Nfs" -> <<"remotefilepath", "filecontents">>
      [] type \in {"Pop3", "Pop3s"} -> <<"domain">>
      [] type = "Smb" -> <<"remote_name", "share", "file", "hash">>
      [] type \in {"Smtp", "Smtps"} -> <<"touser", "subject", "body">>
      [] type \in {"Ssh", "WinRm"} -> <<"commands">>

ServiceDefinition(type, environment) == [type |-> type, environment |-> environment]

(***************************************************************************)
(* Input documents of SpecSvc: one blue team, one machine, one service of  *)
(* a kind with check records, and up to MaxRecords records with valid and  *)
(* defective fields (empty, touser without '@', hash of one character).    *)
(***************************************************************************)
MaxRecords == 2

Hash64 == "0123456789abcdef0123456789abcdef0123456789abcdef0123456789abcdef"

\* a value of the field that passes the field's rules
ValidValue(f) ==
    CASE f = "matching_content" -> "OK"
      [] f = "useragent" -> "ua"
      [] f = "uri" -> "/"
      [] f = "touser" -> <<"a", "@", "b">>
      [] f = "hash" -> Hash64
      [] OTHER -> "v"

FieldValues(f) ==
    {ValidValue(f)} \cup
    (CASE f = "touser" -> {<<>>, <<"a">>}
       [] f = "hash" -> {"", "h"}
       [] OTHER -> {""})

\* the records over the fields fs[i..]
RECURSIVE RecordsWith(_, _)
RecordsWith(fs, i) ==
    IF i > Len(fs) THEN {EmptyMap}
    ELSE {map_insert(r, fs[i], v) : r \in RecordsWith(fs, i + 1), v \in FieldValues(fs[i])}

\* the records of a kind: valid, with one defective field, with the last two
\* fields empty, or with every field empty
Records(type) ==
    LET fs == <<"matching_content">> \o CheckInfo(type)
        Defects(r) == {i \in 1..Len(fs) : r[fs[i]] # ValidValue(fs[i])}
        Empties(r) == {i \in 1..Len(fs) : Len(r[fs[i]]) = 0} IN
    {r \in RecordsWith(fs, 1) :
        \/ Cardinality(Defects(r)) <= 1
        \/ Defects(r) = Empties(r) /\ Empties(r) \in {(Len(fs) - 1)..Len(fs), 1..Len(fs)}}

SvcBlueTeams == <<BlueTeamEditor(1, "Blue1", <<User("u", "p")>>)>>

SvcMachines(definition) ==
    <<MachineEditor("web1", <<ServiceEditor("site", definition, None)>>, T_10_0_0_X, None)>>

SvcDocs(maxRecords) ==
    UNION {{ConfigurationEditor(<<>>, SvcBlueTeams,
                                SvcMachines(ServiceDefinition(type, recs)), ReplaceXWithId) :
               recs \in SeqsUpTo(Records(type), maxRecords)} :
           type \in RecordKinds}

InitSvc == InitWith(SvcDocs(MaxRecords))

SpecSvc == InitSvc /\ [][Next]_vars

(***************************************************************************)
(* Input documents of SpecTeams: up to MaxTeamList red/white teams and up  *)
(* to MaxTeamList blue teams, each with or without a name and with or      *)
(* without a user; no machine or one machine.                              *)
(***************************************************************************)
MaxTeamList == 2

RedWhiteNames == <<"r", "s", "t", "w">>

RedWhiteUsernames == <<"f", "g", "h", "i">>

\* a team is drawn as <<named, staffed>>
TeamShapes == BOOLEAN \X BOOLEAN

\* red/white team i of a document: red at odd positions, white at even ones
ShapedRedWhite(shapes) ==
    [i \in 1..Len(shapes) |->
        RedWhiteTeamEditor(IF shapes[i][1] THEN RedWhiteNames[i] ELSE "",
                           IF shapes[i][2] THEN <<User(RedWhiteUsernames[i], "p")>> ELSE <<>>,
                           i % 2 = 0)]

\* blue team i of a document, with id i
ShapedBlue(shapes) ==
    [i \in 1..Len(shapes) |->
        BlueTeamEditor(i,
                       IF shapes[i][1] THEN TeamNames[i] ELSE "",
                       IF shapes[i][2] THEN <<User(TeamUsernames[i], "p")>> ELSE <<>>)]

TeamsDocMachines == {<<>>, IpMachines(<<<<T_10_0_0_X, None>>>>)}

TeamsDocs(maxTeamList) ==
    {ConfigurationEditor(ShapedRedWhite(rw), ShapedBlue(blue), ms, ReplaceXWithId) :
        rw \in SeqsUpTo(TeamShapes, maxTeamList),
        blue \in SeqsUpTo(TeamShapes, maxTeamList),
        ms \in TeamsDocMachines}

InitTeams == InitWith(TeamsDocs(MaxTeamList))

SpecTeams == InitTeams /\ [][Next]_vars

(***************************************************************************)
(* Input documents of SpecStages: documents that break the rules of        *)
(* several stages at once.  Red/white teams with and without name or user; *)
(* up to MaxStageTeams blue teams with ids 1 and 2, without a name or with *)
(* two users; machines without name, with equal names, without offset,     *)
(* with equal offsets, with equal service names, with either template;     *)
(* every scheme.                                                           *)
(***************************************************************************)
MaxStageTeams == 2

StageRedWhite ==
    {<<>>,
     <<RedWhiteTeamEditor("r", <<User("k", "p")>>, FALSE)>>,
     <<RedWhiteTeamEditor("", <<User("k", "p")>>, TRUE)>>,
     <<RedWhiteTeamEditor("r", <<>>, TRUE)>>}

StageTeamKinds == {"plain", "unnamed", "two users"}

\* blue team i of a document, drawn as <<id, kind>>
StageBlue(ts) ==
    [i \in 1..Len(ts) |->
        BlueTeamEditor(ts[i][1],
                       IF ts[i][2] = "unnamed" THEN "" ELSE TeamNames[i],
                       IF ts[i][2] = "two users"
                       THEN <<User(TeamUsernames[i], "p"), User("x", "p")>>
                       ELSE <<User(TeamUsernames[i], "p")>>)]

StageMachines ==
    {<<>>,
     IpMachines(<<<<T_1x, Some(2)>>>>),
     IpMachines(<<<<T_11, Some(2)>>>>),
     IpMachines(<<<<T_1x, None>>>>),
     IpMachines(<<<<T_1x, Some(2)>>, <<T_1x, Some(5)>>>>),
     <<MachineEditor("m", <<>>, T_1x, Some(2)), MachineEditor("m", <<>>, T_1x, Some(2))>>,
     <<MachineEditor("m", <<>>, T_1x, Some(2)), MachineEditor("m", <<>>, T_11, Some(5))>>,
     <<MachineEditor("", <<ServiceEditor("s", Icmp(None), None)>>, T_1x, Some(2))>>,
     <<MachineEditor("m", <<ServiceEditor("s", Icmp(None), None),
                            ServiceEditor("s", Icmp(None), None)>>, T_1x, Some(2))>>}

StageSchemes ==
    {OneTeam, ReplaceXWithId,
     ReplaceXWithIdTimesMultiplierPlusOffset(1), ReplaceXWithIdTimesMultiplierPlusOffset(3)}

StageDocs(maxTeams) ==
    {ConfigurationEditor(rw, StageBlue(ts), ms, g) :
        rw \in StageRedWhite,
        ts \in SeqsUpTo({1, 2} \X StageTeamKinds, maxTeams),
        ms \in StageMachines,
        g \in StageSchemes}

InitStages == InitWith(StageDocs(MaxStageTeams))

SpecStages == InitStages /\ [][Next]_vars

(***************************************************************************)
(* Input documents of SpecOrder: up to MaxOrderMachines machines, each     *)
(* with a template with or without placeholder and with services that are *)
(* unnamed, named alike, with an invalid account, with an invalid record,  *)
(* or plain; no blue team, one or two; OneTeam and ReplaceXWithId.         *)
(* Machine i has a template of its own, so that no two hosts collide.      *)
(***************************************************************************)
MaxOrderMachines == 2

BadAccounts == Some(<<User("", "p")>>)

BadRecords ==
    ServiceDefinition("Http", <<[matching_content |-> "OK", useragent |-> "ua",
                                 vhost |-> "v", uri |-> ""]>>)

OrderServices ==
    {<<>>,
     <<ServiceEditor("s", Icmp(None), None)>>,
     <<ServiceEditor("", Icmp(None), None)>>,
     <<ServiceEditor("s", Icmp(None), None), ServiceEditor("s", Icmp(None), None)>>,
     <<ServiceEditor("s", Icmp(None), BadAccounts)>>,
     <<ServiceEditor("s", BadRecords, None)>>,
     <<ServiceEditor("s", BadRecords, BadAccounts)>>,
     <<ServiceEditor("s", Icmp(None), None), ServiceEditor("t", BadRecords, None)>>,
     <<ServiceEditor("t", BadRecords, None), ServiceEditor("", Icmp(None), None)>>}

\* the template of machine i, with or without the placeholder
OrderTemplate(i, placeholder) == <<Digits[i + 1], IF placeholder THEN "x" ELSE "1">>

\* machine i of a document, drawn as <<services, placeholder>>
OrderMachines(ms) ==
    [i \in 1..Len(ms) |->
        MachineEditor(MachineNames[i], ms[i][1], OrderTemplate(i, ms[i][2]), Some(i))]

OrderBlue ==
    {<<>>,
     ShapedBlue(<<<<TRUE, TRUE>>>>),
     ShapedBlue(<<<<FALSE, TRUE>>>>),
     ShapedBlue(<<<<TRUE, TRUE>>, <<TRUE, FALSE>>>>),
     ShapedBlue(<<<<TRUE, TRUE>>, <<TRUE, TRUE>>>>)}

OrderDocs(maxMachines) ==
    {ConfigurationEditor(<<>>, blue, OrderMachines(ms), g) :
        blue \in OrderBlue,
        ms \in SeqsUpTo(OrderServices \X BOOLEAN, maxMachines),
        g \in {OneTeam, ReplaceXWithId}}

InitOrder == InitWith(OrderDocs(MaxOrderMachines))

SpecOrder == InitOrder /\ [][Next]_vars

(***************************************************************************)
(* Input documents of SpecOffsets: up to MaxOffsetMachines machines with   *)
(* and without offsets, under every scheme and with multipliers below, at  *)
(* and above the number of machines; and one document with more machines   *)
(* than a u8 counts.                                                       *)
(***************************************************************************)
MaxOffsetMachines == 3

OffsetSchemes ==
    {OneTeam, ReplaceXWithId} \cup
    {ReplaceXWithIdTimesMultiplierPlusOffset(m) : m \in 1..3}

OffsetMachines(offsets) ==
    [i \in 1..Len(offsets) |->
        MachineEditor(MachineNames[i], <<ServiceEditor("s", Icmp(None), None)>>,
                      OrderTemplate(i, TRUE), offsets[i])]

\* U8 machines, named by their position
ManyMachines ==
    [i \in 1..U8 |-> MachineEditor(ToString(i), <<>>, T_1x, Some(i % U8))]

OffsetDocs(maxMachines) ==
    {ConfigurationEditor(<<>>, blue, OffsetMachines(offsets), g) :
        blue \in {<<>>, ShapedBlue(<<<<TRUE, TRUE>>>>)},
        offsets \in SeqsUpTo(IpOffsets, maxMachines),
        g \in OffsetSchemes}
    \cup
    {ConfigurationEditor(<<>>, <<>>, ManyMachines,
                         ReplaceXWithIdTimesMultiplierPlusOffset(3))}

InitOffsets == InitWith(OffsetDocs(MaxOffsetMachines))

SpecOffsets == InitOffsets /\ [][Next]_vars

(***************************************************************************)
(* SpecResolve: convert_id_to_ip called again and again on one             *)
(* ConversionState, for up to MaxResolveMachines machines of which two may *)
(* bear one name, with literal and placeholder templates.                  *)
(***************************************************************************)
MaxResolveMachines == 2

T_12 == <<"1", "2">>

ResolveMachines(ms) ==
    [i \in 1..Len(ms) |-> MachineEditor(ms[i][1], <<>>, ms[i][2], Some(2))]

ResolveDocs(maxMachines) ==
    {ConfigurationEditor(<<>>, <<>>, ResolveMachines(ms), g) :
        ms \in SeqsUpTo({"m", "n"} \X {T_11, T_12, T_1x}, maxMachines),
        g \in {OneTeam, ReplaceXWithId, ReplaceXWithIdTimesMultiplierPlusOffset(3)}}

InitResolve == InitWith(ResolveDocs(MaxResolveMachines))

SpecResolve == InitResolve /\ [][Resolve]_vars

(***************************************************************************)
(* SpecHosts: conversions of, and resolver calls for, documents with up to *)
(* MaxHostMachines machines of different names, each with one service and  *)
(* a template that resolves to an address of its own or to the address of  *)
(* another machine, for the same team or for another team.                 *)
(***************************************************************************)
MaxHostMachines == 2

T_X2 == <<"X", "2">>

HostTemplates == {T_1x, T_X2, T_11}

HostTeamIds == {<<>>, <<1>>, <<2>>, <<1, 2>>, <<2, 1>>}

HostSchemes == {OneTeam, ReplaceXWithId, ReplaceXWithIdTimesMultiplierPlusOffset(3)}

\* machine i of a document: its own name, one ICMP service, offset i
HostMachines(templates) ==
    [i \in 1..Len(templates) |->
        MachineEditor(MachineNames[i], <<ServiceEditor("s", Icmp(None), None)>>,
                      templates[i], Some(i))]

HostDocs(maxMachines) ==
    {ConfigurationEditor(<<>>, IpBlueTeams(ids), HostMachines(templates), g) :
        ids \in HostTeamIds,
        templates \in SeqsUpTo(HostTemplates, maxMachines),
        g \in HostSchemes}

InitHosts == InitWith(HostDocs(MaxHostMachines))

SpecHosts == InitHosts /\ [][Convert \/ Resolve]_vars

(***************************************************************************)
(* SpecNames: documents with up to MaxNamedMachines machines whose names   *)
(* are empty, repeated or different, with and without services, with and   *)
(* without blue teams, after red/white teams that pass or fail.            *)
(***************************************************************************)
MaxNamedMachines == 3

NamedMachines(names, services) ==
    [i \in 1..Len(names) |-> MachineEditor(names[i], services, T_1x, Some(i))]

NamesDocs(maxMachines) ==
    {ConfigurationEditor(rw, IpBlueTeams(ids), NamedMachines(names, services), g) :
        rw \in IdRedWhite,
        ids \in {<<>>, <<1>>, <<1, 2>>},
        names \in SeqsUpTo({"", "m", "n"}, maxMachines),
        services \in {<<>>, <<ServiceEditor("s", Icmp(None), None)>>},
        g \in HostSchemes}

InitNames == InitWith(NamesDocs(MaxNamedMachines))

SpecNames == InitNames /\ [][Next]_vars

(***************************************************************************)
(* SpecFinal: documents that convert, with up to MaxFinalTeams red and     *)
(* white teams in any order, blue teams, and up to MaxFinalMachines        *)
(* machines with no, one or two services of different kinds, ports and     *)
(* points.                                                                 *)
(***************************************************************************)
MaxFinalTeams == 2

MaxFinalMachines == 2

\* a service of the draft with a port and points of its own
ServiceWith(name, definition, port, points) ==
    [ServiceEditor(name, definition, None) EXCEPT !.port = port, !.points = points]

FinalServices ==
    {<<>>,
     <<ServiceWith("s", Icmp(None), 0, 100)>>,
     <<ServiceWith("t", ServiceDefinition("Rdp", None), 3389, 50),
       ServiceWith("s", Icmp(Some("ttl")), 0, 25)>>,
     <<ServiceWith("s", ServiceDefinition("Docker", <<>>), 2375, 100),
       ServiceWith("t", ServiceDefinition("Vnc", Some("")), 5900, 75)>>}

\* red/white team i of a document: white where whites[i]
FinalRedWhite(whites) ==
    [i \in 1..Len(whites) |->
        RedWhiteTeamEditor(RedWhiteNames[i], <<User(RedWhiteUsernames[i], "p")>>, whites[i])]

\* machine i of a document, with a template and an offset of its own
FinalMachines(services) ==
    [i \in 1..Len(services) |->
        MachineEditor(MachineNames[i], services[i], OrderTemplate(i, TRUE), Some(i))]

FinalDocs(maxTeams, maxMachines) ==
    {ConfigurationEditor(FinalRedWhite(whites), IpBlueTeams(ids), FinalMachines(services), g) :
        whites \in SeqsUpTo(BOOLEAN, maxTeams),
        ids \in {<<>>, <<1>>, <<2, 1>>},
        services \in SeqsUpTo(FinalServices, maxMachines),
        g \in {ReplaceXWithId, ReplaceXWithIdTimesMultiplierPlusOffset(4)}}

InitFinal == InitWith(FinalDocs(MaxFinalTeams, MaxFinalMachines))

SpecFinal == InitFinal /\ [][Next]_vars

(***************************************************************************)
(* SpecMatch: one blue team, one machine, one service of any kind: ICMP,   *)
(* RDP or VNC without matcher, with the empty matcher and with a matcher;  *)
(* Docker with up to MaxMatchRecords records whose matchingContent and     *)
(* image are empty or not; every kind with check records, with records     *)
(* that are valid but for a matchingContent that may be empty.             *)
(***************************************************************************)
MaxMatchRecords == 2

Matchers == {None, Some(""), Some("ttl=64")}

DockerRecords ==
    {map_insert(map_insert(EmptyMap, "matching_content", mc), "image", image) :
        mc \in {"", "Up"}, image \in {"", "nginx"}}

\* the records of a kind whose fields other than matching_content are valid
MatchRecords(type) ==
    {r \in RecordsWith(<<"matching_content">> \o CheckInfo(type), 1) :
        \A f \in DOMAIN r : f # "matching_content" => r[f] = ValidValue(f)}

MatchDefinitions(maxRecords) ==
    {ServiceDefinition(type, matcher) : type \in MatcherKinds, matcher \in Matchers}
    \cup {ServiceDefinition("Docker", recs) : recs \in SeqsUpTo(DockerRecords, maxRecords)}
    \cup UNION {{ServiceDefinition(type, recs) :
                    recs \in SeqsUpTo(MatchRecords(type), maxRecords)} :
                type \in RecordKinds}

MatchDocs(maxRecords) ==
    {ConfigurationEditor(<<>>, SvcBlueTeams, SvcMachines(definition), ReplaceXWithId) :
        definition \in MatchDefinitions(maxRecords)}

InitMatch == InitWith(MatchDocs(MaxMatchRecords))

SpecMatch == InitMatch /\ [][Next]_vars

(***************************************************************************)
(* SpecHistory: the output component converts the selected document at     *)
(* each rendering, and another document may be selected between two        *)
(* renderings.  The documents have machines that take the address 11       *)
(* under different names, and blue teams with one or two repeated ids.     *)
(***************************************************************************)
HistoryDocs ==
    {ConfigurationEditor(<<>>, IpBlueTeams(ids), ms, g) :
        ids \in {<<1>>, <<2>>, <<1, 2>>, <<1, 1>>, <<1, 1, 2, 2>>},
        ms \in {<<>>,
                <<MachineEditor("m", <<ServiceEditor("s", Icmp(None), None)>>, T_11, None)>>,
                <<MachineEditor("n", <<ServiceEditor("s", Icmp(None), None)>>, T_11, None)>>,
                <<MachineEditor("n", <<ServiceEditor("s", Icmp(None), None)>>, T_1x, None)>>},
        g \in {OneTeam, ReplaceXWithId}}

\* the selected configuration becomes another document
Select ==
    /\ doc' \in HistoryDocs \ {doc}
    /\ editor' = Rendering(doc')
    /\ storage' = editor'.configs
    /\ UNCHANGED <<overflow_checks, result, prev, ips, call>>

InitHistory == InitWith(HistoryDocs)

SpecHistory == InitHistory /\ [][Convert \/ Select]_vars

(***************************************************************************)
(* SpecSynth: documents with up to MaxSynthMachines machines whose names   *)
(* and whose ICMP services' names are plain or contain the separator and   *)
(* a check name.                                                           *)
(***************************************************************************)
MaxSynthMachines == 2

SynthDocs(maxMachines) ==
    {ConfigurationEditor(
         <<>>, IpBlueTeams(ids),
         [i \in 1..Len(ms) |->
             MachineEditor(ms[i][1],
                           [j \in 1..Len(ms[i][2]) |->
                               ServiceEditor(ms[i][2][j], Icmp(None), None)],
                           OrderTemplate(i, TRUE), Some(i))],
         g) :
        ids \in {<<>>, <<1>>, <<1, 2>>},
        ms \in SeqsUpTo({"m", "n", "m-ICMPCheck"}
                            \X {<<>>, <<"s">>, <<"ICMPCheck-s">>, <<"s", "ICMPCheck-s">>},
                        maxMachines),
        g \in {ReplaceXWithId, ReplaceXWithIdTimesMultiplierPlusOffset(3)}}

InitSynth == InitWith(SynthDocs(MaxSynthMachines))

SpecSynth == InitSynth /\ [][Next]_vars

(***************************************************************************)
(* The editor reducer.  Indices are u8 values counted from 0, as in the    *)
(* code; an index out of range makes the reducer panic.  A message is a    *)
(* record with its type and its arguments.                                 *)
(***************************************************************************)
MaxConfigs == 2

MaxItems == 1

\* EditorState::reduce: the next state, and whether save_changes stored its
\* configurations
reduce(self, action) ==
    LET t == action.type
        has == self.state.tag = "HasConfig"
        config == self.state.config
        InRange(v, i) == i < Len(v)
        remove(v, i) == SubSeq(v, 1, i) \o SubSeq(v, i + 2, Len(v))
        Saved(cconfigs) == [next |-> [self EXCEPT !.configs = cconfigs], save |-> TRUE]
        Kept(state) == [next |-> [self EXCEPT !.state = state], save |-> FALSE]
        Panicked == [next |-> Panic, save |-> FALSE]
        HasConfig(c, view, hovered, service) ==
            [tag |-> "HasConfig", config |-> c, current_view |-> view,
             currently_hovered_machine_name |-> hovered, service_to_drop |-> service]
        selected == self.configs[config + 1].config
        Edited(c) == Saved([self.configs EXCEPT ![config + 1].config = c])
        \* cconfigs[*config as usize].config.<field> ... with an index ind
        OnSelected(field, ind, new) ==
            IF ~InRange(self.configs, config) THEN Panicked
            ELSE IF ~InRange(selected[field], ind) THEN Panicked
            ELSE Edited([selected EXCEPT ![field] = new])
        OnSelectedPush(field, item) ==
            IF ~InRange(self.configs, config) THEN Panicked
            ELSE Edited([selected EXCEPT ![field] = Append(@, item)]) IN
    CASE t = "EditConfigName" ->
           IF ~InRange(self.configs, action.i) THEN Panicked
           ELSE Saved([self.configs EXCEPT ![action.i + 1].name = action.n])
      [] t = "DeleteConfig" ->
           IF ~InRange(self.configs, action.i) THEN Panicked
           ELSE Saved(remove(self.configs, action.i))
      [] t = "Copy" ->
           IF ~InRange(self.configs, action.i) THEN Panicked
           ELSE Saved(Append(self.configs,
                             [name |-> action.name,
                              config |-> self.configs[action.i + 1].config]))
      [] t = "FinishInit" -> Kept(HasConfig(action.i, "Machines", None, None))
      [] t = "CreateNew" ->
           [next |-> [self EXCEPT
                         !.configs = Append(@, [name |-> action.name,
                                                config |-> ConfigurationEditor(
                                                               <<>>, <<>>, <<>>, OneTeam)]),
                         !.state = HasConfig(Len(self.configs) % U8, "Machines", None, None)],
            save |-> TRUE]
      [] has /\ t = "ChangeToView" -> Kept(HasConfig(config, action.view, None, None))
      [] has /\ t = "UpdateIpSettings" ->
           IF ~InRange(self.configs, config) THEN Panicked
           ELSE Edited([selected EXCEPT !.ip_generator = action.new_ip_settings])
      [] t = "Error" -> [next |-> [self EXCEPT !.error = Some(action.e)], save |-> FALSE]
      [] has /\ t = "AddRedWhiteTeam" -> OnSelectedPush("red_white_teams", action.team)
      [] has /\ t = "AddBlueTeam" -> OnSelectedPush("blue_teams", action.team)
      [] has /\ t = "EditRedWhiteTeam" ->
           OnSelected("red_white_teams", action.ind,
                      [selected.red_white_teams EXCEPT ![action.ind + 1] = action.team])
      [] has /\ t = "EditBlueTeam" ->
           OnSelected("blue_teams", action.ind,
                      [selected.blue_teams EXCEPT ![action.ind + 1] = action.team])
      [] has /\ t = "RemoveRedWhiteTeam" ->
           OnSelected("red_white_teams", action.team,
                      remove(selected.red_white_teams, action.team))
      [] has /\ t = "RemoveBlueTeam" ->
           OnSelected("blue_teams", action.team, remove(selected.blue_teams, action.team))
      [] has /\ t = "AddMachine" -> OnSelectedPush("machines", action.machine)
      [] has /\ t = "UpdateMachine" ->
           OnSelected("machines", action.ind,
                      [selected.machines EXCEPT ![action.ind + 1] = action.machine])
      [] has /\ t = "RemoveMachine" ->
           OnSelected("machines", action.ind, remove(selected.machines, action.ind))
      [] has /\ t = "DropService" ->
           IF self.state.service_to_drop # None
           THEN LET r == OnSelected(
                             "machines", action.ind,
                             [selected.machines EXCEPT
                                 ![action.ind + 1].services =
                                     Append(@, self.state.service_to_drop[1])]) IN
                IF r.next = Panic THEN r
                ELSE [r EXCEPT !.next.state.service_to_drop = None]
           ELSE Kept([self.state EXCEPT !.service_to_drop = None])
      [] has /\ t = "PickupService" ->
           Kept([self.state EXCEPT !.service_to_drop = Some(action.service_to_drop)])
      [] has /\ t = "HoverOverMachine" ->
           Kept([self.state EXCEPT !.currently_hovered_machine_name = Some(action.name)])
      [] has /\ t = "StopHoveringOverMachines" ->
           Kept([self.state EXCEPT !.currently_hovered_machine_name = None])
      [] OTHER -> [next |-> self, save |-> FALSE]

\* the messages the views can dispatch in a state: every index is valid when
\* the message is dispatched, and no list grows beyond the bounds
Messages(self) ==
    LET n == Len(self.configs)
        has == self.state.tag = "HasConfig"
        valid == has /\ self.state.config < n
        selected == self.configs[self.state.config + 1].config
        Indices(field) ==
            IF valid THEN 0..(Len(selected[field]) - 1) ELSE IF has THEN {} ELSE {0}
        Room(field) == valid => Len(selected[field]) < MaxItems
        service == ServiceEditor("s", Icmp(None), None)
        machine == MachineEditor("m", <<>>, T_1x, None) IN
    {[type |-> "EditConfigName", n |-> "d", i |-> i] : i \in 0..(n - 1)}
    \cup {[type |-> "DeleteConfig", i |-> i] : i \in 0..(n - 1)}
    \cup {[type |-> "FinishInit", i |-> i] : i \in 0..(n - 1)}
    \cup {[type |-> "Copy", name |-> "c", i |-> i] : i \in {j \in 0..(n - 1) : n < MaxConfigs}}
    \cup {[type |-> "CreateNew", name |-> "c"] : x \in {j \in {0} : n < MaxConfigs}}
    \cup {[type |-> "ChangeToView", view |-> view] : view \in {"Input", "Machines"}}
    \cup {[type |-> "UpdateIpSettings", new_ip_settings |-> g] : g \in {ReplaceXWithId}}
    \cup {[type |-> "Error", e |-> "e"]}
    \cup {[type |-> "AddRedWhiteTeam", team |-> RedWhiteTeamEditor("r", <<>>, FALSE)] :
             x \in {j \in {0} : Room("red_white_teams")}}
    \cup {[type |-> "AddBlueTeam", team |-> BlueTeamEditor(1, "a", <<>>)] :
             x \in {j \in {0} : Room("blue_teams")}}
    \cup {[type |-> "EditRedWhiteTeam", ind |-> ind,
           team |-> RedWhiteTeamEditor("r", <<>>, TRUE)] : ind \in Indices("red_white_teams")}
    \cup {[type |-> "EditBlueTeam", ind |-> ind, team |-> BlueTeamEditor(2, "a", <<>>)] :
             ind \in Indices("blue_teams")}
    \cup {[type |-> "RemoveRedWhiteTeam", team |-> ind] : ind \in Indices("red_white_teams")}
    \cup {[type |-> "RemoveBlueTeam", team |-> ind] : ind \in Indices("blue_teams")}
    \cup {[type |-> "AddMachine", machine |-> machine] :
             x \in {j \in {0} : Room("machines")}}
    \cup {[type |-> "UpdateMachine", ind |-> ind, machine |-> machine] :
             ind \in Indices("machines")}
    \cup {[type |-> "RemoveMachine", ind |-> ind] : ind \in Indices("machines")}
    \cup {[type |-> "DropService", ind |-> ind] :
             ind \in {j \in Indices("machines") :
                         (valid /\ self.state.service_to_drop # None)
                             => Len(selected.machines[j + 1].services) < MaxItems}}
    \cup {[type |-> "PickupService", service_to_drop |-> service]}
    \cup {[type |-> "HoverOverMachine", name |-> ind] : ind \in Indices("machines")}
    \cup {[type |-> "StopHoveringOverMachines"]}

\* one message is dispatched and reduced
Reduce ==
    /\ editor # Panic
    /\ \E action \in Messages(editor) :
          LET r == reduce(editor, action) IN
          /\ editor' = r.next
          /\ storage' = IF r.save THEN r.next.configs ELSE storage
    /\ UNCHANGED <<doc, overflow_checks, result, prev, ips, call>>

\* the lists of configurations found in LocalStorage
StoredConfigs(maxConfigs) ==
    SeqsUpTo({[name |-> "c", config |-> ConfigurationEditor(<<>>, <<>>, <<>>, OneTeam)],
              [name |-> "d",
               config |-> ConfigurationEditor(
                              <<RedWhiteTeamEditor("r", <<>>, FALSE)>>,
                              <<BlueTeamEditor(1, "a", <<>>)>>,
                              <<MachineEditor("m", <<ServiceEditor("s", Icmp(None), None)>>,
                                              T_1x, None)>>,
                              ReplaceXWithId)]},
             maxConfigs)

\* EditorStateProvider: the state the reducer starts in
InitEditor ==
    /\ storage \in StoredConfigs(MaxConfigs)
    /\ editor = [error |-> None, configs |-> storage, state |-> [tag |-> "Initializing"]]
    /\ doc = ConfigurationEditor(<<>>, <<>>, <<>>, OneTeam)
    /\ overflow_checks = FALSE
    /\ result = NoResult
    /\ prev = NoResult
    /\ ips = EmptyMap
    /\ call = NoResult

SpecEditor == InitEditor /\ [][Reduce]_vars

(***************************************************************************)
(* Vocabulary of the properties.                                           *)
(***************************************************************************)
Returned == result # NoResult

Final == result.value.final

IsBlueTeam(team) == team.color = "Blue"

\* the blue teams of the returned final document, in order: team t of this
\* list was resolved from doc.blue_teams[t]
FinalBlue == SelectSeq(Final.teams, IsBlueTeam)

\* the number of services of the machines before machine i
RECURSIVE ServicesBefore(_, _)
ServicesBefore(machines, i) ==
    IF i = 1 THEN 0
    ELSE ServicesBefore(machines, i - 1) + Len(machines[i - 1].services)

\* the machine that service k of a blue team's service list comes from
MachineOf(machines, k) ==
    CHOOSE i \in 1..Len(machines) :
        /\ ServicesBefore(machines, i) < k
        /\ k <= ServicesBefore(machines, i) + Len(machines[i].services)

IsErr(r, kind) == r.tag = "Err" /\ r.kind = kind

UsesMultiplier == IsMultiplierScheme(doc.ip_generator)

\* the decimal numeral of a number below 1000, digit by digit
Numeral(n) ==
    IF n < 10 THEN <<Digits[n + 1]>>
    ELSE IF n < 100 THEN <<Digits[(n \div 10) + 1], Digits[(n % 10) + 1]>>
    ELSE <<Digits[(n \div 100) + 1], Digits[((n \div 10) % 10) + 1], Digits[(n % 10) + 1]>>

\* the template with the numeral put in the place of every 'x' and 'X',
\* built from the right end
RECURSIVE Filled(_, _)
Filled(template, numeral) ==
    IF template = <<>> THEN <<>>
    ELSE LET last == template[Len(template)]
             front == SubSeq(template, 1, Len(template) - 1) IN
         Filled(front, numeral) \o (IF last \in {"x", "X"} THEN numeral ELSE <<last>>)

\* C3: in every returned final document the hosts of services that come from
\* different (machine, blue team) combinations are pairwise different, under
\* each scheme.
C3_HostsPairwiseDifferent ==
    (Returned /\ IsOk(result)) =>
        \A t1, t2 \in 1..Len(FinalBlue) :
            \A k1 \in 1..Len(FinalBlue[t1].services), k2 \in 1..Len(FinalBlue[t2].services) :
                (<<t1, MachineOf(doc.machines, k1)>> # <<t2, MachineOf(doc.machines, k2)>>)
                    => FinalBlue[t1].services[k1].host # FinalBlue[t2].services[k2].host

\* C3 restricted to OneTeam and ReplaceXWithId, the schemes that consult the
\* collision map
C3_HostsPairwiseDifferentWithMap == UsesMultiplier \/ C3_HostsPairwiseDifferent

\* the multiplier/offset pre-validation and the id check, read off the document
PreValidated ==
    /\ UsesMultiplier
    /\ doc.ip_generator.multiplier >= Len(doc.machines)
    /\ \A i \in 1..Len(doc.machines) : doc.machines[i].ip_offset # None
    /\ \A i, j \in 1..Len(doc.machines) :
          i # j => doc.machines[i].ip_offset # doc.machines[j].ip_offset
    /\ \A s, t \in 1..Len(doc.blue_teams) :
          s # t => doc.blue_teams[s].id # doc.blue_teams[t].id

Number(t, i) ==
    doc.ip_generator.multiplier * doc.blue_teams[t].id + doc.machines[i].ip_offset[1]

Pairs == (1..Len(doc.blue_teams)) \X (1..Len(doc.machines))

\* C4: under the multiplier scheme, once the pre-validation passes and the
\* blue-team ids are pairwise distinct, the numbers multiplier*teamId+ipOffset
\* of all (blue team, machine) pairs are pairwise different when none exceeds
\* 255, so two machines with one template never get the same host.
C4_MultiplierNumbersDistinct ==
    (/\ Returned /\ IsOk(result)
     /\ PreValidated
     /\ \A p \in Pairs : Number(p[1], p[2]) <= 255) =>
        /\ \A p, q \in Pairs : p # q => Number(p[1], p[2]) # Number(q[1], q[2])
        /\    \A t1, t2 \in 1..Len(FinalBlue) :
                  \A k1 \in 1..Len(FinalBlue[t1].services),
                     k2 \in 1..Len(FinalBlue[t2].services) :
                      LET m1 == MachineOf(doc.machines, k1)
                          m2 == MachineOf(doc.machines, k2) IN
                      (m1 # m2 /\ doc.machines[m1].ip_template = doc.machines[m2].ip_template)
                          => FinalBlue[t1].services[k1].host # FinalBlue[t2].services[k2].host

\* C10: under the multiplier scheme, for a machine with offset o whose
\* template contains the placeholder, the host of each of its services for the
\* blue team with id t is the template with every 'x' and 'X' replaced by the
\* decimal numeral of multiplier*t+o, when that number is at most 255.
C10_MultiplierHost ==
    (Returned /\ IsOk(result) /\ UsesMultiplier) =>
        \A t \in 1..Len(FinalBlue) :
            \A k \in 1..Len(FinalBlue[t].services) :
                LET i == MachineOf(doc.machines, k) IN
                (has_placeholder(doc.machines[i].ip_template) /\ Number(t, i) <= 255)
                    => FinalBlue[t].services[k].host
                         = Filled(doc.machines[i].ip_template, Numeral(Number(t, i)))

\* multiplier 10, offset 5, team id 2, template "10.0.0.X": host "10.0.0.25"
C10_Witness ==
    /\ Returned /\ IsOk(result)
    /\ doc.ip_generator = ReplaceXWithIdTimesMultiplierPlusOffset(10)
    /\ \E t \in 1..Len(FinalBlue) :
          /\ doc.blue_teams[t].id = 2
          /\ \E k \in 1..Len(FinalBlue[t].services) :
                /\ doc.machines[MachineOf(doc.machines, k)].ip_offset = Some(5)
                /\ doc.machines[MachineOf(doc.machines, k)].ip_template = T_10_0_0_X
                /\ FinalBlue[t].services[k].host
                     = <<"1", "0", ".", "0", ".", "0", ".", "2", "5">>

(***************************************************************************)
(* What the specification requires of a document, read off the document.   *)
(***************************************************************************)
\* every team of the document, red/white teams first
AllTeams ==
    [i \in 1..Len(doc.red_white_teams) |->
        [name |-> doc.red_white_teams[i].name, users |-> doc.red_white_teams[i].users]]
    \o
    [i \in 1..Len(doc.blue_teams) |->
        [name |-> doc.blue_teams[i].name, users |-> doc.blue_teams[i].users]]

ValidUser(user) == user.username # "" /\ user.password # ""

Lists(team, username) == \E k \in 1..Len(team.users) : team.users[k].username = username

\* the names of the teams that list the username
TeamsListing(username) ==
    {AllTeams[i].name : i \in {j \in 1..Len(AllTeams) : Lists(AllTeams[j], username)}}

\* the usernames listed under two different team names
SharedUsernames ==
    {u \in UNION {{AllTeams[i].users[k].username : k \in 1..Len(AllTeams[i].users)} :
                     i \in 1..Len(AllTeams)} :
        Cardinality(TeamsListing(u)) > 1}

RedWhiteWellFormed ==
    \A i \in 1..Len(doc.red_white_teams) :
        doc.red_white_teams[i].name # "" /\ doc.red_white_teams[i].users # <<>>

BlueWellFormed ==
    \A i \in 1..Len(doc.blue_teams) :
        doc.blue_teams[i].name # "" /\ doc.blue_teams[i].users # <<>>

TeamUsersValid ==
    \A i \in 1..Len(AllTeams) :
        \A k \in 1..Len(AllTeams[i].users) : ValidUser(AllTeams[i].users[k])

AccountsValid ==
    \A i \in 1..Len(doc.machines) :
        \A j \in 1..Len(doc.machines[i].services) :
            LET accounts == doc.machines[i].services[j].accounts IN
            accounts # None => \A k \in 1..Len(accounts[1]) : ValidUser(accounts[1][k])

GuardPasses == ~(doc.ip_generator.scheme = "OneTeam" /\ Len(doc.blue_teams) > 1)

OffsetsPass ==
    UsesMultiplier =>
        /\ doc.ip_generator.multiplier >= Len(doc.machines)
        /\ \A i \in 1..Len(doc.machines) : doc.machines[i].ip_offset # None
        /\ \A i, j \in 1..Len(doc.machines) :
              i # j => doc.machines[i].ip_offset # doc.machines[j].ip_offset

MachineNamesPass ==
    /\ \A i \in 1..Len(doc.machines) : doc.machines[i].name # ""
    /\ \A i, j \in 1..Len(doc.machines) :
          i # j => doc.machines[i].name # doc.machines[j].name

ServiceNamesPass ==
    \A i \in 1..Len(doc.machines) :
        LET services == doc.machines[i].services IN
        /\ \A j \in 1..Len(services) : services[j].name # ""
        /\ \A j, k \in 1..Len(services) : j # k => services[j].name # services[k].name

BlueIdsDistinct ==
    \A s, t \in 1..Len(doc.blue_teams) :
        s # t => doc.blue_teams[s].id # doc.blue_teams[t].id

BlueIdsNonZero == \A t \in 1..Len(doc.blue_teams) : doc.blue_teams[t].id # 0

\* every host resolves: the template fits the scheme, and (where the scheme
\* keeps the collision map) there is at most one machine with services
HostsPass ==
    /\ \A i \in 1..Len(doc.machines) :
          (doc.machines[i].services # <<>> /\ doc.blue_teams # <<>>) =>
              (has_placeholder(doc.machines[i].ip_template)
                   <=> doc.ip_generator.scheme # "OneTeam")
    /\ UsesMultiplier \/ Len(doc.machines) <= 1

EnvironmentsPass ==
    \A i \in 1..Len(doc.machines) :
        \A j \in 1..Len(doc.machines[i].services) :
            IsOk(environments(doc.machines[i].services[j].definition,
                              doc.machines[i].name, doc.machines[i].services[j].name))

\* every rule of the specification other than the rules on users' names and
\* passwords and on blue-team ids
StructurePasses ==
    /\ RedWhiteWellFormed /\ BlueWellFormed
    /\ GuardPasses /\ OffsetsPass
    /\ MachineNamesPass /\ ServiceNamesPass
    /\ HostsPass /\ EnvironmentsPass

\* the users of the returned final document: team members and service accounts
FinalUsersValid ==
    \A t \in 1..Len(Final.teams) :
        /\ \A k \in 1..Len(Final.teams[t].users) : ValidUser(Final.teams[t].users[k])
        /\ IsBlueTeam(Final.teams[t]) =>
              \A s \in 1..Len(Final.teams[t].services) :
                  LET accounts == Final.teams[t].services[s].accounts IN
                  accounts # None =>
                      \A k \in 1..Len(accounts[1]) : ValidUser(accounts[1][k])

\* the names of the teams of the returned final document that list the username
FinalTeamsListing(username) ==
    {Final.teams[t].name :
        t \in {x \in 1..Len(Final.teams) : Lists(Final.teams[x], username)}}

C2_OnlyCrossTeamRepeatsRejected ==
    (Returned /\ TeamUsersValid /\ AccountsValid /\ BlueIdsNonZero) =>
        /\ IsErr(result, "DuplicateUserNameForTeams") => SharedUsernames # {}
        /\ (StructurePasses /\ BlueIdsDistinct /\ SharedUsernames = {}) => IsOk(result)

\* the users of the document with an empty username or an empty password
InvalidUsernames ==
    UNION {{AllTeams[i].users[k].username :
               k \in {x \in 1..Len(AllTeams[i].users) : ~ValidUser(AllTeams[i].users[x])}} :
           i \in 1..Len(AllTeams)}
    \cup
    UNION {UNION {LET accounts == doc.machines[i].services[j].accounts IN
                  IF accounts = None THEN {}
                  ELSE {accounts[1][k].username :
                           k \in {x \in 1..Len(accounts[1]) : ~ValidUser(accounts[1][x])}} :
                  j \in 1..Len(doc.machines[i].services)} :
           i \in 1..Len(doc.machines)}

\* C5: a user with an empty username or password, in a red, white or blue team
\* or among a service's accounts, makes the conversion fail, with
\* EmptyUsernameOrPassword(context, username) unless an earlier check fails;
\* so every user of a returned final document has a non-empty username and a
\* non-empty password.  (Stated for the documents with a blue team, for which
\* services are resolved, and with no blue-team id 0.)
C5_EmptyCredentialsRejected ==
    (Returned /\ doc.blue_teams # <<>> /\ BlueIdsNonZero) =>
        /\ ~(TeamUsersValid /\ AccountsValid) =>
               /\ ~IsOk(result)
               /\ (StructurePasses /\ BlueIdsDistinct) =>
                     /\ IsErr(result, "EmptyUsernameOrPassword")
                     /\ result.args[2] \in InvalidUsernames
        /\ IsOk(result) => FinalUsersValid

NamesWithId(id) ==
    LET HasId(team) == team.id = id
        teams == SelectSeq(doc.blue_teams, HasId) IN
    [k \in 1..Len(teams) |-> teams[k].name]

\* C7: for a document with two blue teams of equal non-zero id the result is
\* DuplicateBlueTeamIDs(id, names), where id is used by more than one blue team
\* and names lists exactly the blue teams with that id, provided the red/white
\* team checks, the one-team guard, the multiplier/offset checks and the
\* machine-name checks pass.
C7_DuplicateBlueTeamIds ==
    (/\ Returned
     /\ RedWhiteWellFormed /\ GuardPasses /\ OffsetsPass /\ MachineNamesPass
     /\ \E s, t \in 1..Len(doc.blue_teams) :
           s # t /\ doc.blue_teams[s].id = doc.blue_teams[t].id
                 /\ doc.blue_teams[s].id # 0) =>
        /\ IsErr(result, "DuplicateBlueTeamIDs")
        /\ Len(NamesWithId(result.args[1])) > 1
        /\ result.args[2] = NamesWithId(result.args[1])

\* three blue teams or more, two of them named by the error
C7_Witness ==
    /\ Returned /\ IsErr(result, "DuplicateBlueTeamIDs")
    /\ result.args[1] # 0
    /\ Len(doc.blue_teams) > Len(result.args[2])
    /\ doc.red_white_teams # <<>> /\ doc.machines # <<>>

\* C8: two runs of convert_editor_to_final on value-equal documents give the
\* same outcome, also for documents that break one rule in several places.
\* (Stated for the documents with no blue-team id 0.)
C8_SameOutcomeTwice == (prev # NoResult /\ BlueIdsNonZero) => (result = prev)

\* C9: on success the editor document returned next to the final document is
\* value-equal to the input, and no conversion, successful or failed, changes
\* the caller's document.
C9_EditorReturnedUnchanged ==
    [][/\ IsOk(result') => result'.value.editor = doc
       /\ doc' = doc]_vars

C9_Witness ==
    /\ Returned /\ IsOk(result)
    /\ Len(doc.blue_teams) = 2 /\ Len(doc.machines) = 2
    /\ UsesMultiplier
    /\ result.value.editor = doc

(***************************************************************************)
(* Check records and environments (SpecSvc).                               *)
(***************************************************************************)
\* the document has one blue team and one machine with one service, of a kind
\* with check records and without accounts, whose host resolves
OneRecordService ==
    /\ doc.red_white_teams = <<>>
    /\ Len(doc.blue_teams) = 1 /\ BlueWellFormed
    /\ Len(doc.machines) = 1 /\ Len(doc.machines[1].services) = 1
    /\ MachineNamesPass /\ ServiceNamesPass /\ OffsetsPass /\ HostsPass
    /\ doc.machines[1].services[1].accounts = None
    /\ doc.machines[1].services[1].definition.type \in RecordKinds

TheService == doc.machines[1].services[1]

TheRecords == TheService.definition.environment

RECURSIVE Concat(_)
Concat(seqs) == IF seqs = <<>> THEN <<>> ELSE Head(seqs) \o Concat(Tail(seqs))

\* the messages separated by ", ", built from the right end
RECURSIVE CommaJoined(_)
CommaJoined(msgs) ==
    IF Len(msgs) = 1 THEN msgs[1]
    ELSE CommaJoined(SubSeq(msgs, 1, Len(msgs) - 1)) \o ", " \o msgs[Len(msgs)]

\* the messages of the rules of the kind that the record violates, in rule order
ViolatedMessages(type, item) ==
    LET rules == check_rules(type)
        Fired(rule) ==
            LET Fires(c) == holds(c[1], item[rule.field])
                fired == SelectSeq(rule.checks, Fires) IN
            [k \in 1..Len(fired) |-> fired[k][2]] IN
    Concat([r \in 1..Len(rules) |-> Fired(rules[r])])

FailingRecords ==
    {k \in 1..Len(TheRecords) :
        ViolatedMessages(TheService.definition.type, TheRecords[k]) # <<>>}

FirstFailingRecord ==
    TheRecords[CHOOSE k \in FailingRecords : \A j \in FailingRecords : k <= j]

\* C11: if any record of a service of a check-record-bearing kind violates any
\* rule, the conversion fails with ServiceNotFullyConfigured(machine, service,
\* message), so no environment is returned, also when valid records precede the
\* failing one; message is the ", "-joined list of the messages of all rules
\* the first failing record violates, in rule order.  An HTTP record whose only
\* defect is an empty uri gives exactly "URI cannot be empty".
C11_FirstFailingRecordReported ==
    (Returned /\ OneRecordService /\ FailingRecords # {}) =>
        /\ IsErr(result, "ServiceNotFullyConfigured")
        /\ result.args =
             <<doc.machines[1].name, TheService.name,
               CommaJoined(ViolatedMessages(TheService.definition.type,
                                            FirstFailingRecord))>>
        /\ (/\ TheService.definition.type = "Http"
            /\ FirstFailingRecord["uri"] = ""
            /\ FirstFailingRecord["matching_content"] # ""
            /\ FirstFailingRecord["useragent"] # ""
            /\ FirstFailingRecord["vhost"] # "") =>
               result.args[3] = "URI cannot be empty"

\* a valid HTTP record followed by one with an empty vhost and an empty uri
C11_Witness ==
    /\ Returned /\ OneRecordService
    /\ TheService.definition.type = "Http"
    /\ Len(TheRecords) = 2 /\ FailingRecords = {2}
    /\ result = Err("ServiceNotFullyConfigured",
                    <<"web1", "site", "Virtual host cannot be empty, URI cannot be empty">>)

\* the document of C12
ExampleDocument ==
    [red_white_teams |-> <<>>,
     blue_teams |-> <<[id |-> 1, name |-> "Blue1",
                       users |-> <<[username |-> "u", password |-> "p"]>>]>>,
     machines |->
         <<[name |-> "web1",
            services |->
                <<[name |-> "site", port |-> 80, points |-> 100, accounts |-> None,
                   definition |->
                       [type |-> "Http",
                        environment |->
                            <<[matching_content |-> "OK", useragent |-> "ua",
                               vhost |-> "v", uri |-> "/"]>>]]>>,
            ip_template |-> <<"1", "0", ".", "0", ".", "0", ".", "X">>,
            ip_offset |-> None]>>,
     ip_generator |-> ReplaceXWithId]

\* C12: converting the document with no red/white teams, the blue team Blue1
\* (id 1, user u/p), the machine web1 (template 10.0.0.X) and its HTTP service
\* site (port 80, points 100, no accounts, one record OK/ua/v//) under
\* ReplaceXWithId succeeds; the final document has exactly one team, a blue
\* team, with exactly one service: name "web1-HTTPCheck-site", check name
\* "HTTPCheck", host "10.0.0.1", port 80, points 100, and one environment with
\* matching content "OK" and three properties.
C12_ExampleConverts ==
    (Returned /\ doc = ExampleDocument) =>
        /\ IsOk(result)
        /\ Len(Final.teams) = 1
        /\ Final.teams[1].color = "Blue"
        /\ Len(Final.teams[1].services) = 1
        /\ LET service == Final.teams[1].services[1] IN
           /\ service.name = "web1-HTTPCheck-site"
           /\ service.check_name = "HTTPCheck"
           /\ service.host = <<"1", "0", ".", "0", ".", "0", ".", "1">>
           /\ service.port = 80
           /\ service.points = 100
           /\ Len(service.environments) = 1
           /\ service.environments[1].matching_content = "OK"
           /\ Len(service.environments[1].properties) = 3

C12_Witness ==
    /\ doc = ExampleDocument
    /\ IsOk(result)
    /\ Final.teams[1].services[1].environments[1].properties[3]
         = [name |-> "uri", value |-> "/"]

\* the environment the specification derives from a record: one property per
\* declared field, in declaration order
DeclaredEnvironment(type, item) ==
    [matching_content |-> item["matching_content"],
     properties |->
         [k \in 1..Len(CheckInfo(type)) |->
             [name |-> CheckInfo(type)[k], value |-> item[CheckInfo(type)[k]]]]]

\* C17: on success a service of a check-record-bearing kind with n records
\* has exactly n environments, in record order; each copies the record's
\* matching content and has one property per kind-specific field of the
\* record type, in declaration order, named by the field and carrying its
\* value.
C17_EnvironmentsMirrorRecords ==
    (Returned /\ IsOk(result) /\ OneRecordService) =>
        LET envs == Final.teams[1].services[1].environments IN
        /\ Len(envs) = Len(TheRecords)
        /\ \A k \in 1..Len(TheRecords) :
              envs[k] = DeclaredEnvironment(TheService.definition.type, TheRecords[k])

\* C17 for the kinds other than FTP and SMTP/SMTPS
C17_EnvironmentsMirrorRecordsElsewhere ==
    TheService.definition.type \in {"Ftp", "Smtp", "Smtps"} \/ C17_EnvironmentsMirrorRecords

(***************************************************************************)
(* Team names and users (SpecTeams).                                       *)
(***************************************************************************)
IllFormed(team) == team.name = "" \/ team.users = <<>>

\* the error of a team without a name or without users: the name comes first
TeamError(team) ==
    IF team.name = "" THEN Err("TeamHasEmptyName", <<>>)
    ELSE Err("TeamNeedsUser", <<team.name>>)

FirstIllFormed(teams) ==
    teams[CHOOSE i \in 1..Len(teams) :
              IllFormed(teams[i]) /\ \A j \in 1..(i - 1) : ~IllFormed(teams[j])]

\* the services of every blue team resolve
ServicesPass ==
    ServiceNamesPass /\ HostsPass /\ AccountsValid /\ EnvironmentsPass

\* C13: a team (red, white or blue) with an empty name makes the conversion
\* fail with TeamHasEmptyName, and one with a name and no user with
\* TeamNeedsUser(name), when it is the first violation met: the first such
\* red/white team always, the first such blue team when the red/white teams
\* and the checks that run before the blue teams pass; the name check of a
\* team comes before its user check.  Every team of a returned final document
\* has a name and at least one user.
C13_TeamsNeedNameAndUser ==
    Returned =>
        /\ ~RedWhiteWellFormed => result = TeamError(FirstIllFormed(doc.red_white_teams))
        /\ (/\ RedWhiteWellFormed /\ ~BlueWellFormed
            /\ GuardPasses /\ OffsetsPass /\ MachineNamesPass /\ BlueIdsDistinct
            /\ ServicesPass) =>
               result = TeamError(FirstIllFormed(doc.blue_teams))
        /\ IsOk(result) =>
               \A t \in 1..Len(Final.teams) : ~IllFormed(Final.teams[t])

\* a well-formed blue team, then a blue team without name and without users
C13_Witness ==
    /\ RedWhiteWellFormed /\ doc.red_white_teams # <<>>
    /\ Len(doc.blue_teams) = 2 /\ doc.machines # <<>>
    /\ ~IllFormed(doc.blue_teams[1])
    /\ doc.blue_teams[2].name = "" /\ doc.blue_teams[2].users = <<>>
    /\ result = Err("TeamHasEmptyName", <<>>)

(***************************************************************************)
(* The order of the stages (SpecStages).                                   *)
(***************************************************************************)
\* some blue team is processed and something in its processing fails
BlueStageFails ==
    /\ doc.blue_teams # <<>>
    /\ ~(BlueWellFormed /\ ServicesPass)

StageKinds ==
    <<{"TeamHasEmptyName", "TeamNeedsUser"},
      {"OneTeamConfigurationWithMultipleTeams"},
      {"MultNotBigEnough", "MissingOffset", "DuplicateOffsets"},
      {"MachineHasEmptyName", "DuplicateMachineNames"},
      {"DuplicateBlueTeamIDs"},
      {"TeamHasEmptyName", "TeamNeedsUser", "MachineHasEmptyService",
       "DuplicateServiceName", "XInManualIP", "NoXInTemplateIP", "DuplicateIPs",
       "OffsetNotSpecified", "EmptyUsernameOrPassword", "ServiceNotFullyConfigured"},
      {"DuplicateUserNameForTeams"}>>

\* stage k of the document fails, for the stages 1 to 6
StageFails ==
    <<~RedWhiteWellFormed, ~GuardPasses, ~OffsetsPass, ~MachineNamesPass,
      ~BlueIdsDistinct, BlueStageFails>>

\* C14: when a document breaks the rules of several stages the error is that
\* of the earliest failing stage, in the order (1) red/white teams, in input
\* order, (2) the OneTeam guard, (3) multiplier and offsets, (4) machine names,
\* (5) duplicate blue-team ids, (6) the blue teams, (7) the username check,
\* which is reported only when the stages 1 to 6 pass.
C14_EarliestStageWins ==
    Returned =>
        /\ \A k \in 1..6 :
              (StageFails[k] /\ \A j \in 1..(k - 1) : ~StageFails[j]) =>
                  /\ result.tag = "Err"
                  /\ result.kind \in StageKinds[k]
        /\ ~RedWhiteWellFormed => result = TeamError(FirstIllFormed(doc.red_white_teams))
        /\ IsErr(result, "DuplicateUserNameForTeams") => \A j \in 1..6 : ~StageFails[j]

\* a document that fails the guard, the machine names, the ids and the blue
\* stage is rejected by the guard
C14_Witness ==
    /\ ~StageFails[1] /\ StageFails[2] /\ StageFails[4] /\ StageFails[5] /\ StageFails[6]
    /\ IsErr(result, "OneTeamConfigurationWithMultipleTeams")

(***************************************************************************)
(* The order inside the blue stage (SpecOrder).                            *)
(***************************************************************************)
ServicesOf(i) == doc.machines[i].services

\* service j of machine i has no name or the name of an earlier service
NameDefectAt(i, j) ==
    \/ ServicesOf(i)[j].name = ""
    \/ \E h \in 1..(j - 1) : ServicesOf(i)[h].name = ServicesOf(i)[j].name

NameDefect(i) == \E j \in 1..Len(ServicesOf(i)) : NameDefectAt(i, j)

NamesError(i) ==
    LET j == CHOOSE x \in 1..Len(ServicesOf(i)) :
                 NameDefectAt(i, x) /\ \A h \in 1..(x - 1) : ~NameDefectAt(i, h) IN
    IF ServicesOf(i)[j].name = ""
    THEN Err("MachineHasEmptyService", <<doc.machines[i].name>>)
    ELSE Err("DuplicateServiceName", <<doc.machines[i].name, ServicesOf(i)[j].name>>)

\* the template of machine i does not fit the scheme
Misfit(i) ==
    has_placeholder(doc.machines[i].ip_template) <=> doc.ip_generator.scheme = "OneTeam"

HostError(i) ==
    IF doc.ip_generator.scheme = "OneTeam"
    THEN Err("XInManualIP", <<doc.machines[i].name>>)
    ELSE Err("NoXInTemplateIP", <<doc.machines[i].name>>)

AccountDefect(i, j) ==
    LET accounts == ServicesOf(i)[j].accounts IN
    accounts # None /\ \E k \in 1..Len(accounts[1]) : ~ValidUser(accounts[1][k])

RecordDefect(i, j) ==
    LET definition == ServicesOf(i)[j].definition IN
    /\ definition.type \in RecordKinds
    /\ \E k \in 1..Len(definition.environment) :
          ViolatedMessages(definition.type, definition.environment[k]) # <<>>

ServiceDefect(i, j) == Misfit(i) \/ AccountDefect(i, j) \/ RecordDefect(i, j)

MachineDefect(i) ==
    NameDefect(i) \/ \E j \in 1..Len(ServicesOf(i)) : ServiceDefect(i, j)

\* what the first defective machine makes of the result: its service names,
\* then its first defective service: host, then accounts, then records
ReportsMachine(i) ==
    IF NameDefect(i) THEN result = NamesError(i)
    ELSE LET j == CHOOSE x \in 1..Len(ServicesOf(i)) :
                      ServiceDefect(i, x) /\ \A h \in 1..(x - 1) : ~ServiceDefect(i, h) IN
         IF Misfit(i) THEN result = HostError(i)
         ELSE IF AccountDefect(i, j)
         THEN /\ IsErr(result, "EmptyUsernameOrPassword")
              /\ result.args[1]
                   = "service " \o doc.machines[i].name \o "-" \o ServicesOf(i)[j].name
         ELSE /\ IsErr(result, "ServiceNotFullyConfigured")
              /\ result.args[1] = doc.machines[i].name
              /\ result.args[2] = ServicesOf(i)[j].name

DefectiveMachines == {i \in 1..Len(doc.machines) : MachineDefect(i)}

FirstDefectiveMachine == CHOOSE i \in DefectiveMachines : \A h \in DefectiveMachines : i <= h

\* no two machines have one template
TemplatesDiffer ==
    \A i, h \in 1..Len(doc.machines) :
        i # h => doc.machines[i].ip_template # doc.machines[h].ip_template

StagesBeforeBluePass ==
    RedWhiteWellFormed /\ GuardPasses /\ OffsetsPass /\ MachineNamesPass /\ BlueIdsDistinct

\* C15: inside the blue stage the first failure wins in the order: the blue
\* team's name and users; then machine by machine the service names of the
\* machine, before any of its services is generated; then service by service
\* host resolution, account validation, environment derivation; and a blue
\* team is processed completely before the next one is looked at.
C15_FirstFailureInsideBlueStage ==
    (Returned /\ StagesBeforeBluePass /\ TemplatesDiffer /\ doc.blue_teams # <<>>) =>
        LET first == doc.blue_teams[1] IN
        /\ IllFormed(first) => result = TeamError(first)
        /\ (~IllFormed(first) /\ DefectiveMachines # {}) =>
               ReportsMachine(FirstDefectiveMachine)
        /\ (/\ ~IllFormed(first) /\ DefectiveMachines = {}
            /\ Len(doc.blue_teams) > 1 /\ IllFormed(doc.blue_teams[2])) =>
               result = TeamError(doc.blue_teams[2])

\* a service with a misfitting template, an invalid account and an invalid
\* record yields the host error; the machine after it has two services of one
\* name
C15_Witness ==
    /\ StagesBeforeBluePass /\ Len(doc.blue_teams) = 2 /\ Len(doc.machines) = 2
    /\ ~IllFormed(doc.blue_teams[1]) /\ IllFormed(doc.blue_teams[2])
    /\ Len(ServicesOf(1)) = 1
    /\ Misfit(1) /\ AccountDefect(1, 1) /\ RecordDefect(1, 1) /\ ~NameDefect(1)
    /\ NameDefect(2)
    /\ result = Err("NoXInTemplateIP", <<"m">>)

\* C16: a machine with an unnamed service or with two services of one name
\* makes the conversion fail with MachineHasEmptyService(machine) or
\* DuplicateServiceName(machine, service) when nothing else is wrong with the
\* document, whatever the number of blue teams.
C16_ServiceNamesAlwaysChecked ==
    (/\ Returned /\ StagesBeforeBluePass /\ BlueWellFormed /\ TemplatesDiffer
     /\ \A i \in 1..Len(doc.machines) :
           /\ ~Misfit(i)
           /\ \A j \in 1..Len(ServicesOf(i)) : ~AccountDefect(i, j) /\ ~RecordDefect(i, j)
     /\ \E i \in 1..Len(doc.machines) : NameDefect(i)) =>
        result = NamesError(CHOOSE i \in 1..Len(doc.machines) :
                                NameDefect(i) /\ \A h \in 1..(i - 1) : ~NameDefect(h))

\* C16 for the documents with a blue team
C16_ServiceNamesCheckedWithBlueTeam ==
    doc.blue_teams = <<>> \/ C16_ServiceNamesAlwaysChecked

(***************************************************************************)
(* The multiplier and offset checks (SpecOffsets).                         *)
(***************************************************************************)
MachinesWithoutOffset == {i \in 1..Len(doc.machines) : doc.machines[i].ip_offset = None}

\* the names of the machines with the offset, in document order
NamesWithOffset(offset) ==
    LET HasOffset(machine) == machine.ip_offset = offset
        machines == SelectSeq(doc.machines, HasOffset) IN
    [k \in 1..Len(machines) |-> machines[k].name]

SharedOffsets ==
    {doc.machines[i].ip_offset : i \in 1..Len(doc.machines)}
        \cap {o \in {Some(n) : n \in 0..(U8 - 1)} : Len(NamesWithOffset(o)) > 1}

\* C18: under the multiplier scheme, when the red/white teams pass: a
\* multiplier below the number of machines gives MultNotBigEnough(machine
\* count, multiplier); otherwise a machine without offset gives MissingOffset
\* naming the first such machine; otherwise an offset declared by several
\* machines gives DuplicateOffsets listing exactly the machines with that
\* offset.  Under OneTeam and ReplaceXWithId none of the three is returned.
C18_MultiplierAndOffsetChecks ==
    (Returned /\ RedWhiteWellFormed) =>
        IF UsesMultiplier
        THEN LET mult == doc.ip_generator.multiplier
                 count == Len(doc.machines) IN
             /\ mult < count => result = Err("MultNotBigEnough", <<count, mult>>)
             /\ (mult >= count /\ MachinesWithoutOffset # {}) =>
                    \E i \in MachinesWithoutOffset :
                        /\ \A h \in MachinesWithoutOffset : i <= h
                        /\ result = Err("MissingOffset", <<doc.machines[i].name>>)
             /\ (mult >= count /\ MachinesWithoutOffset = {} /\ SharedOffsets # {}) =>
                    /\ IsErr(result, "DuplicateOffsets")
                    /\ \E o \in SharedOffsets : result.args = NamesWithOffset(o)
        ELSE result.tag = "Err" =>
                 result.kind \notin {"MultNotBigEnough", "MissingOffset", "DuplicateOffsets"}

\* C18 for the documents whose machines a u8 can count
C18_ChecksUpTo255Machines == Len(doc.machines) >= U8 \/ C18_MultiplierAndOffsetChecks

(***************************************************************************)
(* u8 arithmetic of the multiplier scheme (SpecIp).                        *)
(***************************************************************************)
\* C19: under the multiplier scheme the conversion completes whatever the
\* product and the sum are, and the number put in the place of the
\* placeholder is (multiplier*teamId+ipOffset) mod 256.
C19_WrappedNumber ==
    (Returned /\ UsesMultiplier) =>
        /\ result # Panic
        /\ IsOk(result) =>
               \A t \in 1..Len(FinalBlue) :
                   \A k \in 1..Len(FinalBlue[t].services) :
                       LET i == MachineOf(doc.machines, k) IN
                       FinalBlue[t].services[k].host
                           = Filled(doc.machines[i].ip_template,
                                    Numeral(Number(t, i) % U8))

\* C19 for the build without overflow checks
C19_WrappedNumberWhenWrapping == overflow_checks \/ C19_WrappedNumber

(***************************************************************************)
(* The resolver under OneTeam (SpecResolve).                               *)
(***************************************************************************)
Called == call # NoResult

\* C20: under OneTeam, a call for a machine whose template contains 'x' or
\* 'X' returns XInManualIP(machine); otherwise, if the address is recorded
\* for a machine of another name, it returns DuplicateIPs(address, this
\* machine, other machine) and leaves the map as it was; otherwise it records
\* address -> machine, changes no other entry and returns the template as it
\* is.  Resolving the same machine to the same address again is no error and
\* leaves the map as it was.
C20_OneTeamResolution ==
    (Called /\ call.generator.scheme = "OneTeam") =>
        LET before == call.used_ips
            address == call.ip_template
            machine == call.machine_name IN
        IF has_placeholder(address)
        THEN call.res = Err("XInManualIP", <<machine>>)
        ELSE IF address \in DOMAIN before /\ before[address] # machine
        THEN /\ call.res = Err("DuplicateIPs", <<address, machine, before[address]>>)
             /\ ips = before
        ELSE /\ call.res = Ok(address)
             /\ DOMAIN ips = DOMAIN before \cup {address}
             /\ ips[address] = machine
             /\ \A a \in DOMAIN before : a # address => ips[a] = before[a]
             /\ address \in DOMAIN before => ips = before

\* the same machine resolved to the same address a second time, with another
\* address recorded as well
C20_Witness ==
    /\ Called /\ call.generator.scheme = "OneTeam"
    /\ call.ip_template \in DOMAIN call.used_ips
    /\ call.used_ips[call.ip_template] = call.machine_name
    /\ Cardinality(DOMAIN call.used_ips) = 2
    /\ call.res = Ok(call.ip_template)
    /\ ips = call.used_ips

(***************************************************************************)
(* The resolver under ReplaceXWithId (SpecHosts).                          *)
(***************************************************************************)
UsesId == doc.ip_generator.scheme = "ReplaceXWithId"

\* the address of machine i for blue team t under ReplaceXWithId
IdAddress(t, i) == Filled(doc.machines[i].ip_template, Numeral(doc.blue_teams[t].id))

\* the template has a letter that stands for the team id
Templated(template) == \E k \in DOMAIN template : template[k] \in {"x", "X"}

\* the machines whose template has no placeholder
Literal == {i \in 1..Len(doc.machines) : ~Templated(doc.machines[i].ip_template)}

\* two machines and an address that both resolve to, for some teams
Collisions ==
    {<<i, h>> \in (1..Len(doc.machines)) \X (1..Len(doc.machines)) :
        /\ i # h
        /\ \E t, u \in 1..Len(doc.blue_teams) : IdAddress(t, i) = IdAddress(u, h)}

\* every service of the document resolves once its host does
OnlyHostsCanFail ==
    /\ StagesBeforeBluePass /\ BlueWellFormed /\ doc.blue_teams # <<>>
    /\ ServiceNamesPass /\ AccountsValid /\ EnvironmentsPass
    /\ \A i \in 1..Len(doc.machines) : Len(ServicesOf(i)) = 1

\* C21: under ReplaceXWithId a machine whose template has no 'x'/'X' is
\* rejected with NoXInTemplateIP(machine); otherwise its address is the
\* template with every 'x' and 'X' replaced by the decimal numeral of the team
\* id.  Two machines of different names that resolve to one address, for one
\* team or for two, make the conversion fail with DuplicateIPs(address, later
\* machine, earlier machine); one machine resolved for teams of different ids
\* never collides.  Stated for the conversion and for each call of the
\* resolver.
C21_ReplaceXWithIdResolution ==
    /\ (Returned /\ UsesId /\ OnlyHostsCanFail) =>
           /\ (Literal # {} /\ 1 \in Literal) =>
                  result = Err("NoXInTemplateIP", <<doc.machines[1].name>>)
           /\ IsErr(result, "NoXInTemplateIP") =>
                  \E i \in Literal : result.args = <<doc.machines[i].name>>
           /\ (Literal = {} /\ Collisions # {}) =>
                  /\ IsErr(result, "DuplicateIPs")
                  /\ \E p \in Collisions :
                        \E t, u \in 1..Len(doc.blue_teams) :
                            /\ IdAddress(t, p[1]) = IdAddress(u, p[2])
                            /\ result.args = <<IdAddress(t, p[1]),
                                               doc.machines[p[1]].name,
                                               doc.machines[p[2]].name>>
           /\ (Literal = {} /\ Collisions = {}) =>
                  /\ IsOk(result)
                  /\ \A t \in 1..Len(FinalBlue) :
                        \A k \in 1..Len(FinalBlue[t].services) :
                            FinalBlue[t].services[k].host
                                = IdAddress(t, MachineOf(doc.machines, k))
    /\ (Called /\ call.generator.scheme = "ReplaceXWithId") =>
           LET before == call.used_ips
               machine == call.machine_name
               address == Filled(call.ip_template, Numeral(call.id)) IN
           IF ~Templated(call.ip_template)
           THEN call.res = Err("NoXInTemplateIP", <<machine>>)
           ELSE IF address \in DOMAIN before /\ before[address] # machine
           THEN call.res = Err("DuplicateIPs", <<address, machine, before[address]>>)
           ELSE call.res = Ok(address) /\ ips = map_insert(before, address, machine)

\* machine m resolves to 12 for team 2, machine n to 12 for team 1
C21_Witness ==
    /\ UsesId /\ Len(doc.blue_teams) = 2
    /\ result = Err("DuplicateIPs", <<T_12, "n", "m">>)
    /\ doc.machines[1].ip_template = T_X2 /\ doc.machines[2].ip_template = T_1x
    /\ Called /\ call.res = Ok(T_12) /\ call.ip_template = T_X2

(***************************************************************************)
(* Machine names (SpecNames).                                              *)
(***************************************************************************)
\* machine i has no name or the name of an earlier machine
BadMachineName(i) ==
    \/ doc.machines[i].name = ""
    \/ \E h \in 1..(i - 1) : doc.machines[h].name = doc.machines[i].name

FirstBadMachineName ==
    CHOOSE i \in 1..Len(doc.machines) :
        BadMachineName(i) /\ \A h \in 1..(i - 1) : ~BadMachineName(h)

MachineNameError(i) ==
    IF doc.machines[i].name = "" THEN Err("MachineHasEmptyName", <<>>)
    ELSE Err("DuplicateMachineNames", <<doc.machines[i].name>>)

\* C22: when the stages before it pass, a document with a machine of empty
\* name or with two machines of one name is rejected with the error of the
\* first offending machine in list order (MachineHasEmptyName, or
\* DuplicateMachineNames(name)), also when the machines have no services and
\* the document has no blue teams; so the machine names of a document that
\* converts are non-empty and pairwise different.
C22_MachineNamesChecked ==
    Returned =>
        /\ (RedWhiteWellFormed /\ GuardPasses /\ OffsetsPass /\ ~MachineNamesPass) =>
               result = MachineNameError(FirstBadMachineName)
        /\ IsOk(result) => MachineNamesPass

\* machines m, n, m without services in a document without blue teams
C22_Witness ==
    /\ doc.blue_teams = <<>> /\ Len(doc.machines) = 3
    /\ \A i \in 1..3 : ServicesOf(i) = <<>>
    /\ doc.machines[2].name = "n"
    /\ result = Err("DuplicateMachineNames", <<"m">>)

(***************************************************************************)
(* The final document (SpecFinal).                                         *)
(***************************************************************************)
\* the number of services of all machines
TotalServices == ServicesBefore(doc.machines, Len(doc.machines) + 1)

\* the check names of the kinds, as the scoring engine knows them
StaticCheckName(type) ==
    CASE type = "Icmp" -> "ICMPCheck"
      [] type = "Rdp" -> "RDPCheck"
      [] type = "Vnc" -> "VNCCheck"
      [] type = "Docker" -> "DockerCheck"

\* the service of the draft that service k of a blue team comes from
DraftService(k) ==
    LET i == MachineOf(doc.machines, k) IN
    ServicesOf(i)[k - ServicesBefore(doc.machines, i)]

\* C23: the teams of a returned final document are the red/white teams in
\* input order, White where isWhiteTeam and Red elsewhere, followed by the
\* blue teams in input order.  The service list of each blue team is, machine
\* by machine and service by service in input order, one service per service of
\* the draft, with name "{machine}-{checkName}-{serviceName}", the static check
\* name of its kind, and the port and the points of the draft; so every blue
\* team has as many services as all machines together.
C23_FinalTeamsAndServices ==
    (Returned /\ IsOk(result)) =>
        LET nrw == Len(doc.red_white_teams) IN
        /\ Len(Final.teams) = nrw + Len(doc.blue_teams)
        /\ \A i \in 1..nrw :
              /\ Final.teams[i].color
                     = IF doc.red_white_teams[i].white_team THEN "White" ELSE "Red"
              /\ Final.teams[i].name = doc.red_white_teams[i].name
              /\ Final.teams[i].users = doc.red_white_teams[i].users
        /\ \A t \in 1..Len(doc.blue_teams) :
              LET team == Final.teams[nrw + t] IN
              /\ team.color = "Blue"
              /\ team.name = doc.blue_teams[t].name
              /\ team.users = doc.blue_teams[t].users
              /\ Len(team.services) = TotalServices
              /\ \A k \in 1..TotalServices :
                    LET service == DraftService(k)
                        checkName == StaticCheckName(service.definition.type) IN
                    /\ team.services[k].name
                           = doc.machines[MachineOf(doc.machines, k)].name
                                 \o "-" \o checkName \o "-" \o service.name
                    /\ team.services[k].check_name = checkName
                    /\ team.services[k].port = service.port
                    /\ team.services[k].points = service.points

\* a white team before a red one, two blue teams, and machines with two
\* services each
C23_Witness ==
    /\ Returned /\ IsOk(result)
    /\ Len(doc.red_white_teams) = 2 /\ doc.red_white_teams[1].white_team
    /\ ~doc.red_white_teams[2].white_team
    /\ Len(FinalBlue) = 2 /\ Len(doc.machines) = 2
    /\ Len(FinalBlue[2].services) = 4
    /\ FinalBlue[2].services[3].name = "n-RDPCheck-t"
    /\ FinalBlue[2].services[3].port = 3389

(***************************************************************************)
(* Matchers and Docker (SpecMatch).                                        *)
(***************************************************************************)
\* the document has one blue team and one machine with one service, and
\* nothing but the service's definition can make its conversion fail
OneService ==
    /\ doc.red_white_teams = <<>>
    /\ Len(doc.blue_teams) = 1 /\ BlueWellFormed
    /\ Len(doc.machines) = 1 /\ Len(doc.machines[1].services) = 1
    /\ MachineNamesPass /\ ServiceNamesPass /\ OffsetsPass
    /\ Templated(doc.machines[1].ip_template) /\ UsesId
    /\ doc.machines[1].services[1].accounts = None

\* the environments of the one service of the returned final document
TheEnvironments == FinalBlue[1].services[1].environments

DefaultMatch(type) ==
    CASE type = "Icmp" -> "1 packets transmitted, 1 received"
      [] type = "Rdp" -> "SUCCESS$"
      [] type = "Vnc" -> "ACCOUNT FOUND"

\* C24: a service of kind ICMP, RDP or VNC never fails environment derivation
\* and gets exactly one environment, without properties: its matchingContent
\* is the default of the kind when the service has no matcher, and the matcher
\* as it is, the empty string included, when it has one.
C24_MatcherEnvironment ==
    (Returned /\ OneService /\ TheService.definition.type \in {"Icmp", "Rdp", "Vnc"}) =>
        /\ IsOk(result)
        /\ Len(TheEnvironments) = 1
        /\ TheEnvironments[1].properties = <<>>
        /\ TheEnvironments[1].matching_content
               = IF TheRecords = <<>>
                 THEN DefaultMatch(TheService.definition.type)
                 ELSE TheRecords[1]

\* a VNC service with the empty matcher
C24_Witness ==
    /\ Returned /\ IsOk(result) /\ OneService
    /\ TheService.definition = [type |-> "Vnc", environment |-> <<"">>]
    /\ Len(TheEnvironments[1].matching_content) = 0

\* C25: a Docker service never fails environment derivation and gets no
\* environment, whatever its records hold, records with empty matchingContent
\* or empty image included; a service of any other kind with check records is
\* rejected when one of its records has an empty matchingContent.
C25_DockerUnchecked ==
    (Returned /\ OneService) =>
        /\ TheService.definition.type = "Docker" =>
               IsOk(result) /\ TheEnvironments = <<>>
        /\ (/\ TheService.definition.type
                   \notin {"Docker", "Icmp", "Rdp", "Vnc"}
            /\ \E i \in 1..Len(TheRecords) : Len(TheRecords[i].matching_content) = 0) =>
               IsErr(result, "ServiceNotFullyConfigured")

\* a Docker service with two records, one without matchingContent and image
C25_Witness ==
    /\ Returned /\ IsOk(result) /\ OneService
    /\ TheService.definition.type = "Docker"
    /\ Len(TheRecords) = 2
    /\ Len(TheRecords[1].matching_content) = 0 /\ Len(TheRecords[1].image) = 0
    /\ TheRecords[2].image = "nginx"
    /\ TheEnvironments = <<>>

(***************************************************************************)
(* Conversions one after the other (SpecHistory).                          *)
(***************************************************************************)
\* the ids that two blue teams of the document have
RepeatedIds ==
    {doc.blue_teams[s].id : s \in {x \in 1..Len(doc.blue_teams) :
        \E y \in 1..Len(doc.blue_teams) :
            x # y /\ doc.blue_teams[x].id = doc.blue_teams[y].id}}

\* C26: the collision map lives for one call of convert_editor_to_final: the
\* result of converting a document is the result that document has when it is
\* converted alone, whichever documents were converted before it, and a
\* conversion changes nothing but the result it returns.
C26_ResultIndependentOfHistory ==
    [][doc' = doc =>
           /\ convert_editor_to_final(doc) = {result'}
           /\ UNCHANGED <<overflow_checks, ips, call>>]_vars

\* the same for the documents in which at most one blue-team id is repeated
C26_FreshCollisionMap ==
    [][(doc' = doc /\ Cardinality(RepeatedIds) <= 1) =>
           /\ convert_editor_to_final(doc) = {result'}
           /\ ~IsErr(result', "DuplicateIPs")
           /\ UNCHANGED <<overflow_checks, ips, call>>]_vars

(***************************************************************************)
(* The collision map (SpecHosts).                                          *)
(***************************************************************************)
\* C27: under OneTeam and ReplaceXWithId a call of the resolver only adds to
\* the collision map: every entry it finds stays as it is, no address goes
\* over to a machine of another name, and the address it hands out is recorded
\* for the machine that receives it; so in a returned final document two
\* services of machines with different names never have the same host.  Under
\* the multiplier scheme the map stays as it was created, and no call's
\* outcome depends on it.
C27_CollisionMapGrows ==
    /\ (Called /\ ~IsMultiplierScheme(call.generator)) =>
           /\ DOMAIN call.used_ips \subseteq DOMAIN ips
           /\ \A a \in DOMAIN call.used_ips : ips[a] = call.used_ips[a]
           /\ IsOk(call.res) =>
                  /\ DOMAIN ips = DOMAIN call.used_ips \cup {call.res.value}
                  /\ ips[call.res.value] = call.machine_name
           /\ ~IsOk(call.res) => ips = call.used_ips
    /\ (Returned /\ IsOk(result) /\ ~UsesMultiplier) =>
           \A t1, t2 \in 1..Len(FinalBlue) :
               \A k1 \in 1..Len(FinalBlue[t1].services),
                  k2 \in 1..Len(FinalBlue[t2].services) :
                   doc.machines[MachineOf(doc.machines, k1)].name
                       # doc.machines[MachineOf(doc.machines, k2)].name
                   => FinalBlue[t1].services[k1].host # FinalBlue[t2].services[k2].host
    /\ UsesMultiplier => ips = EmptyMap
    /\ (Called /\ IsMultiplierScheme(call.generator)) =>
           LET i == CHOOSE i \in 1..Len(doc.machines) :
                        doc.machines[i].name = call.machine_name IN
           /\ Templated(call.ip_template) =>
                  call.res = Ok(Filled(call.ip_template,
                                       Numeral(call.generator.multiplier * call.id + i)))
           /\ ~Templated(call.ip_template) =>
                  call.res = Err("NoXInTemplateIP", <<call.machine_name>>)

\* a document of two machines that converts, and a call that finds three
\* addresses recorded and is refused the one of machine m
C27_Witness ==
    /\ Returned /\ IsOk(result) /\ ~UsesMultiplier
    /\ Len(FinalBlue) = 1 /\ Len(FinalBlue[1].services) = 2
    /\ Called /\ Cardinality(DOMAIN ips) = 3
    /\ IsErr(call.res, "DuplicateIPs") /\ call.machine_name = "n"

(***************************************************************************)
(* Offsets and the resolver (SpecOffsets).                                 *)
(***************************************************************************)
\* the document with the offset of every machine taken away
WithoutOffsets ==
    [doc EXCEPT !.machines = [i \in 1..Len(doc.machines) |->
                                 [doc.machines[i] EXCEPT !.ip_offset = None]]]

\* C28: no conversion returns OffsetNotSpecified.  Under the multiplier
\* scheme a document with a machine without offset whose multiplier is big
\* enough is rejected with MissingOffset, before any host is resolved; under
\* OneTeam and ReplaceXWithId the offsets play no part: the document without
\* its offsets has the same final document, or the same error.
C28_OffsetNotSpecifiedUnreachable ==
    Returned =>
        /\ ~IsErr(result, "OffsetNotSpecified")
        /\ (/\ UsesMultiplier /\ RedWhiteWellFormed
            /\ doc.ip_generator.multiplier >= Len(doc.machines)
            /\ MachinesWithoutOffset # {}) => IsErr(result, "MissingOffset")
        /\ ~UsesMultiplier =>
               \E r \in convert_editor_to_final(WithoutOffsets) :
                   IF IsOk(result)
                   THEN IsOk(r) /\ r.value.final = Final
                   ELSE r = result

\* a blue team, a machine with an offset and a service, and a second machine
\* with a service and no offset, under a multiplier scheme
C28_Witness ==
    /\ Returned /\ UsesMultiplier /\ Len(doc.blue_teams) = 1
    /\ Len(doc.machines) = 2 /\ MachinesWithoutOffset = {2}
    /\ Len(ServicesOf(2)) = 1 /\ Templated(doc.machines[2].ip_template)
    /\ result = Err("MissingOffset", <<doc.machines[2].name>>)

(***************************************************************************)
(* Synthesized service names (SpecSynth).                                  *)
(***************************************************************************)
\* C29: in every returned final document the names of the services of one
\* blue team, "{machine}-{checkName}-{serviceName}", are pairwise different.
C29_SynthesizedNamesDiffer ==
    (Returned /\ IsOk(result)) =>
        \A t \in 1..Len(FinalBlue) :
            \A k1, k2 \in 1..Len(FinalBlue[t].services) :
                k1 # k2 => FinalBlue[t].services[k1].name # FinalBlue[t].services[k2].name

\* the same for the documents without a machine whose name contains the
\* separator
C29_PlainNamesDiffer ==
    (\E i \in 1..Len(doc.machines) : doc.machines[i].name = "m-ICMPCheck")
        \/ C29_SynthesizedNamesDiffer

(***************************************************************************)
(* The editor reducer (SpecEditor).                                        *)
(***************************************************************************)
\* the messages that act on the selected configuration or on the view
NeedsConfig ==
    {"ChangeToView", "UpdateIpSettings", "AddRedWhiteTeam", "AddBlueTeam",
     "EditRedWhiteTeam", "EditBlueTeam", "RemoveRedWhiteTeam", "RemoveBlueTeam",
     "AddMachine", "UpdateMachine", "RemoveMachine", "DropService", "PickupService",
     "HoverOverMachine", "StopHoveringOverMachines"}

\* the selected index of the state is an index into its configurations
SelectionValid(state) ==
    state.state.tag = "HasConfig" => state.state.config < Len(state.configs)

\* C30: whenever the reducer's state is HasConfig, its selected index is a
\* valid index into configs, so that force_init and the messages that edit
\* the selected configuration can index it, also after DeleteConfig and Copy;
\* and in Initializing every message that needs a selected configuration
\* leaves the state as it is.
C30_SelectedIndexValid ==
    /\ editor # Panic
    /\ SelectionValid(editor)
    /\ editor.state.tag = "Initializing" =>
           \A action \in Messages(editor) :
               action.type \in NeedsConfig => reduce(editor, action).next = editor

\* the same, but for the steps that shorten the list of configurations
C30_ValidUntilDeleteConfig ==
    [][(/\ editor # Panic /\ SelectionValid(editor)
        /\ Len(editor'.configs) >= Len(editor.configs)) =>
           /\ editor' # Panic
           /\ SelectionValid(editor')
           /\ editor'.state.tag = "Initializing" =>
                  \A action \in Messages(editor') :
                      action.type \in NeedsConfig => reduce(editor', action).next = editor']_vars

====
